---- MODULE Spec2Model ----
(***************************************************************************)
(* A model of github.com/tkw1536/procutil.                                 *)
(*                                                                         *)
(*   SpecDC : DualCloserWrapper (closer.go) under concurrent callers.      *)
(*   Spec   : Command (the lifecycle state machine over a Process) under   *)
(*            concurrent callers, its waiter goroutine and the cleanup     *)
(*            goroutine the waiter spawns.                                 *)
(*                                                                         *)
(* Go's sync.Mutex and sync.Once are modelled by what they do: a mutex is  *)
(* a holder (0 = free); a Once is a done flag plus a mutex, Do() returning *)
(* at once when done is set and otherwise running f under the mutex and    *)
(* setting done when f has returned.                                       *)
(***************************************************************************)
EXTENDS Integers, FiniteSets, Sequences, TLC

\* ------------------------------------------------------------------------
\* Bounds of the model
\* ------------------------------------------------------------------------

\* number of goroutines calling Close()/CloseWrite() on one wrapper
NClosers == 3

\* cap on the number of times the wrapped Closer.Close() may be entered
MaxCloserCalls == 3

\* number of goroutines calling the methods of one Command
NCallers == 2

\* number of goroutine slots for waiters, and for the cleanups they spawn
MaxGo == 2

\* cap on the number of times any one method of the Process may be entered
MaxCalls == 2

\* cap on the number of calls of any one function below a Terminal
MaxLowCalls == 2

\* cap on the number of sizes a resize source emits before it closes
MaxSizes == 3

NRefs == 1

MaxCleanups == 2

MaxEpCalls == 5

MaxSignals == 2

NoErr == "nil"

VARIABLES
    \* DualCloserWrapper and its callers
    count,          \* DualCloserWrapper.count (uint32)
    onceDone,       \* kind -> the done flag of the sync.Once close / closeWrite
    onceMu,         \* kind -> holder of that Once's mutex (0 = free)
    dcPc,           \* caller -> position inside Close()/CloseWrite()
    dcKind,         \* caller -> which of the two methods it is (or was last) in
    dcErr,          \* caller -> the named result err of its call
    closerEntered,  \* number of times the wrapped Closer.Close() was entered
    closerReturned, \* number of times the wrapped Closer.Close() has returned
    closerErr,      \* what the wrapped Closer.Close() returned last
    dcStarted,      \* kinds of which at least one call has been made
    dcReturned,     \* kinds of which at least one call has returned
    dcWaited,       \* callers that found the Once mutex held by another call
    ndCall,         \* the last call of NewDualCloser: its argument and result
    dcFirer,        \* the caller whose call in flight has entered the wrapped
                    \* Closer.Close() (0 if none)
    \* Command, its callers and goroutines, and its Process
    state,          \* Command.state
    isPty,          \* Command.isPty
    m,              \* Command.m: the thread holding the mutex (0 = free)
    waitChan,       \* Command.waitChan: "nil", "open" or "closed"
    waitExitCode,   \* Command.waitExitCode
    waitErr,        \* Command.waitErr
    cleanupDone,    \* Command.cleanupOnce: its done flag
    cleanupMu,      \* Command.cleanupOnce: the thread holding its mutex
    cleanupErr,     \* Command.cleanupErr
    pc,             \* thread -> position
    arg,            \* caller -> the isTty argument of its Init call in flight
    waited,         \* waiter -> its locals code, err once Process.Wait returned
    lastRet,        \* the latest return of a Command method: which, and result
    mismatched,     \* a start call was refused for the wrong terminal mode
    startErr,       \* what the start call that passed the checks returned
    procCalls,      \* Process method -> number of times it was entered
    procWaitRet,    \* what Process.Wait() returned last
    procCleanupRet, \* what Process.Cleanup() returned last
    \* a Terminal (term/term.go) and what lies below it
    handle,         \* what NewTerminal returned: "nilTerminal", "fileTerminal"
                    \* ("none" before NewTerminal is called)
    isTerminal,     \* fileTerminal.isTerminal
    inState,        \* fileTerminal.inState (NoState = nil)
    outState,       \* fileTerminal.outState (NoState = nil)
    lowCalls,       \* function of package lowlevel (or "Close") -> calls made
    lowRet,         \* what the last call of lowlevel (or Close) returned
    termRet,        \* what the last call of a method of the Terminal returned
    inRaw,          \* the input of the descriptor is in raw mode
    outRaw,         \* the output of the descriptor is in raw mode
    \* a StreamingProcess, its caller, its Streamer's tasks and its context
    spPc,           \* where the caller of the StreamingProcess is
    spPty,          \* Init(ctx, isTerm) and Start(.., isPty): the flag
    ptyTerm,        \* StreamingProcess.ptyTerm: "nil" or "pty"
    exited,         \* StreamingProcess.exited
    spRet,          \* what the last method of the StreamingProcess returned
    streamsErr,     \* what waitStreams() is returning
    ctxDone,        \* sp.ctx is cancelled
    outPc,          \* the output task (go Streamer.StreamOutput)
    outErr,         \* the error the output task sends on outputErrChan
    outDelivered,   \* the value of the output task has been received
    inPc,           \* the input task (go Streamer.StreamInput)
    inputDone,      \* inputDoneChan is closed
    restoreDone,    \* restoreTerms (sync.Once): its done flag
    restoreMu,      \* restoreTerms: who holds its mutex ("free" if nobody)
    restoreRuns,    \* number of times the body of restoreTerminals has run
    spIn,           \* the terminals holding a state for their input
    spOut,          \* the terminals holding a state for their output
    everRaw,        \* setRawTerminals has stored a state in some terminal
    rzPc,           \* the resize task of Start
    rzTotal,        \* number of sizes the resize source emits before closing
    rzTaken,        \* number of sizes received from resizeChan so far
    rzClosed,       \* resizeChan is closed
    rzSize,         \* the size the resize task is forwarding
    rzLocal,        \* the sizes that reached the local pty handle, in order
    rzRemote,       \* the sizes that reached Streamer.ResizeTo, in order
    rzFailed,       \* some ResizeTo call of the resize task has failed
    strm,           \* the Streamer: the flags it was handed, its connection
                    \* and the calls it got
    startLog,       \* the steps Start has taken, in order
    cleanups,       \* number of Cleanup() calls made
    ptyCloses,      \* number of Close() calls that reached the local pty handle
    \* ExecProcess
    epCmd,          \* sp.cmd is set
    epProc,         \* sp.cmd.Process: "nil", or the state of the process
    epRet,          \* what the last method of the ExecProcess returned
    epKill,         \* how the last sp.cmd.Process.Kill() ended
    epPanicked,     \* a panic has ended the program
    epCalls,        \* number of method calls made
    \* lowlevel.WindowResize and monitorSize
    wrPc,           \* "new", "running" (WindowResize returned), "cleaned"
    sigNotify,      \* SIGWINCH is delivered to osSigC
    osSigCBuf,      \* number of signals in osSigC (capacity 1)
    notifyBuf,      \* number of values in the channel c (capacity 1)
    notifyClosed,   \* the channel c is closed
    forwardPc,      \* the goroutine forwarding osSigC to c
    initialPc,      \* the goroutine sending the initial signal
    monitorPc,      \* the goroutine of monitorSize ranging over onResize
    wscBuf,         \* number of sizes in wsc (capacity 1)
    signals         \* number of SIGWINCH raised so far

dcVars == <<count, onceDone, onceMu, dcPc, dcKind, dcErr, closerEntered,
            closerReturned, closerErr, dcStarted, dcReturned, dcWaited,
            ndCall, dcFirer>>

cmdVars == <<state, isPty, m, waitChan, waitExitCode, waitErr, cleanupDone,
             cleanupMu, cleanupErr, pc, arg, waited, lastRet, mismatched,
             startErr, procCalls, procWaitRet, procCleanupRet>>

termVars == <<handle, isTerminal, inState, outState, lowCalls, lowRet, termRet,
             inRaw, outRaw>>

spOutVars == <<outPc, outErr, outDelivered>>

spInVars == <<inPc, inputDone>>

spOnceVars == <<restoreDone, restoreMu, restoreRuns>>

spTokVars == <<spIn, spOut, everRaw>>

spRzVars == <<rzPc, rzTotal, rzTaken, rzClosed, rzSize, rzLocal, rzRemote,
              rzFailed>>

spMainVars == <<spPc, spPty, ptyTerm, exited, spRet, streamsErr, ctxDone>>

spStrVars == <<strm, startLog, cleanups, ptyCloses>>

spVars == <<spMainVars, spOutVars, spInVars, spOnceVars, spTokVars, spRzVars,
            spStrVars>>

epVars == <<epCmd, epProc, epRet, epKill, epPanicked, epCalls>>

wrVars == <<wrPc, sigNotify, osSigCBuf, notifyBuf, notifyClosed, forwardPc,
            initialPc, monitorPc, wscBuf, signals>>

vars == <<dcVars, cmdVars, termVars, spVars, epVars, wrVars>>

\* ========================================================================
\* DualCloserWrapper
\* ========================================================================

DCCallers == 1..NClosers

Kinds == {"Close", "CloseWrite"}

\* the errors the wrapped Closer.Close() may return
CloserErrs == {NoErr, "errClose"}

\* atomic.AddUint32(&w.count, 1): the new value.  The add runs inside the two
\* Once bodies only, so the uint32 stays far below its wrap-around.
AddUint32(n) == n + 1

FiresAtOneMut(n) == n >= 1

NeverFiresMut(n) == n = 3

\* `atomic.AddUint32(&w.count, 1) == 2`: n is the value AddUint32 returned
FiresClose(n) == n = 2

\* io.Closer values: the nil interface, values of a type with Close() only,
\* values of a type with Close() and CloseWrite(), and the pointer to the
\* DualCloserWrapper w whose calls are modelled here.
NilCloser == [type |-> "nil", ref |-> 0]

ClosersIn ==
    {NilCloser, [type |-> "DualCloserWrapper", ref |-> 0]} \cup
    [type : {"Closer", "DualCloser"}, ref : 1..NRefs]

OnlyForeignDualCloserMut(c) == c.type = "DualCloser"

\* `closer.(DualCloser)`: the dynamic type has Close() and CloseWrite()
IsDualCloser(c) == c.type \in {"DualCloser", "DualCloserWrapper"}

\* `&DualCloserWrapper{Closer: closer}`: count and the two Once at their zero
\* values
NewWrapper(c) ==
    [Closer |-> c, count |-> 0, close |-> FALSE, closeWrite |-> FALSE]

\* NewDualCloser(closer): the value returned and the wrappers allocated
NewDualCloser(c) ==
    IF c = NilCloser
    THEN [ret |-> NilCloser, allocated |-> {}]
    ELSE IF IsDualCloser(c)
         THEN [ret |-> c, allocated |-> {}]
         ELSE [ret |-> [type |-> "DualCloserWrapper", ref |-> NRefs + c.ref],
               allocated |-> {NewWrapper(c)}]

ErrDroppedMut(e) == NoErr

\* `err = w.Closer.Close()`: the named result of the method
ErrAssigned(e) == e

OnceStaysLockedMut(t) == t

\* the deferred o.m.Unlock() of doSlow: the mutex is free again
OnceUnlocked(t) == 0

InitDC ==
    /\ count = 0
    /\ onceDone = [k \in Kinds |-> FALSE]
    /\ onceMu = [k \in Kinds |-> 0]
    /\ dcPc = [t \in DCCallers |-> "idle"]
    /\ dcKind = [t \in DCCallers |-> "Close"]
    /\ dcErr = [t \in DCCallers |-> NoErr]
    /\ closerEntered = 0
    /\ closerReturned = 0
    /\ closerErr = NoErr
    /\ dcStarted = {}
    /\ dcReturned = {}
    /\ dcWaited = {}
    /\ dcFirer = 0
    /\ ndCall = [called |-> FALSE, closer |-> NilCloser, ret |-> NilCloser,
                 allocated |-> {}]

\* A goroutine calls w.Close() or w.CloseWrite(): err is the zero value and
\* w.close.Do / w.closeWrite.Do is entered.
DCCall(t, k) ==
    /\ dcPc[t] = "idle"
    /\ dcPc' = [dcPc EXCEPT ![t] = "do"]
    /\ dcKind' = [dcKind EXCEPT ![t] = k]
    /\ dcErr' = [dcErr EXCEPT ![t] = NoErr]
    /\ dcStarted' = dcStarted \cup {k}
    /\ UNCHANGED <<count, onceDone, onceMu, closerEntered, closerReturned,
                   closerErr, dcReturned, dcWaited>>
    /\ UNCHANGED <<ndCall, dcFirer, cmdVars, termVars, spVars, epVars, wrVars>>

\* Once.Do fast path: done is set, Do returns without running f and the
\* method returns err (still nil).
DCOnceFast(t) ==
    /\ dcPc[t] = "do"
    /\ onceDone[dcKind[t]]
    /\ dcPc' = [dcPc EXCEPT ![t] = "idle"]
    /\ dcReturned' = dcReturned \cup {dcKind[t]}
    /\ UNCHANGED <<count, onceDone, onceMu, dcKind, dcErr, closerEntered,
                   closerReturned, closerErr, dcStarted, dcWaited>>
    /\ UNCHANGED <<ndCall, dcFirer, cmdVars, termVars, spVars, epVars, wrVars>>

\* Once.Do slow path: done was read as unset, the caller goes for the mutex.
DCOnceSlow(t) ==
    /\ dcPc[t] = "do"
    /\ ~onceDone[dcKind[t]]
    /\ dcPc' = [dcPc EXCEPT ![t] = "lock"]
    /\ dcWaited' = IF onceMu[dcKind[t]] # 0 THEN dcWaited \cup {t} ELSE dcWaited
    /\ UNCHANGED <<count, onceDone, onceMu, dcKind, dcErr, closerEntered,
                   closerReturned, closerErr, dcStarted, dcReturned>>
    /\ UNCHANGED <<ndCall, dcFirer, cmdVars, termVars, spVars, epVars, wrVars>>

\* doSlow: o.m.Lock(); if done is set meanwhile, unlock and return; otherwise
\* f is about to run with the mutex held.
DCOnceLock(t) ==
    /\ dcPc[t] = "lock"
    /\ onceMu[dcKind[t]] = 0
    /\ IF onceDone[dcKind[t]]
       THEN /\ dcPc' = [dcPc EXCEPT ![t] = "idle"]
            /\ dcReturned' = dcReturned \cup {dcKind[t]}
            /\ UNCHANGED onceMu
       ELSE /\ dcPc' = [dcPc EXCEPT ![t] = "f"]
            /\ onceMu' = [onceMu EXCEPT ![dcKind[t]] = t]
            /\ UNCHANGED dcReturned
    /\ UNCHANGED <<count, onceDone, dcKind, dcErr, closerEntered,
                   closerReturned, closerErr, dcStarted, dcWaited>>
    /\ UNCHANGED <<ndCall, dcFirer, cmdVars, termVars, spVars, epVars, wrVars>>

\* f: the atomic add and its comparison; when it fires, w.Closer.Close() is
\* entered.
DCAdd(t) ==
    /\ dcPc[t] = "f"
    /\ count' = AddUint32(count)
    /\ IF FiresClose(count')
       THEN /\ closerEntered < MaxCloserCalls
            /\ closerEntered' = closerEntered + 1
            /\ dcPc' = [dcPc EXCEPT ![t] = "closing"]
            /\ dcFirer' = t
       ELSE /\ dcPc' = [dcPc EXCEPT ![t] = "unlock"]
            /\ UNCHANGED <<closerEntered, dcFirer>>
    /\ UNCHANGED <<onceDone, onceMu, dcKind, dcErr, closerReturned,
                   closerErr, dcStarted, dcReturned, dcWaited>>
    /\ UNCHANGED <<ndCall, cmdVars, termVars, spVars, epVars, wrVars>>

\* w.Closer.Close() returns; `err = w.Closer.Close()`.
DCCloserReturns(t, e) ==
    /\ dcPc[t] = "closing"
    /\ dcErr' = [dcErr EXCEPT ![t] = ErrAssigned(e)]
    /\ closerErr' = e
    /\ closerReturned' = closerReturned + 1
    /\ dcPc' = [dcPc EXCEPT ![t] = "unlock"]
    /\ UNCHANGED <<count, onceDone, onceMu, dcKind, closerEntered,
                   dcStarted, dcReturned, dcWaited>>
    /\ UNCHANGED <<ndCall, dcFirer, cmdVars, termVars, spVars, epVars, wrVars>>

\* f has returned: the deferred atomic store of done, the unlock, and the
\* method's return.
DCOnceUnlock(t) ==
    /\ dcPc[t] = "unlock"
    /\ onceDone' = [onceDone EXCEPT ![dcKind[t]] = TRUE]
    /\ onceMu' = [onceMu EXCEPT ![dcKind[t]] = OnceUnlocked(t)]
    /\ dcPc' = [dcPc EXCEPT ![t] = "idle"]
    /\ dcReturned' = dcReturned \cup {dcKind[t]}
    /\ dcFirer' = IF dcFirer = t THEN 0 ELSE dcFirer
    /\ UNCHANGED <<count, dcKind, dcErr, closerEntered, closerReturned,
                   closerErr, dcStarted, dcWaited>>
    /\ UNCHANGED <<ndCall, cmdVars, termVars, spVars, epVars, wrVars>>

\* Some goroutine calls NewDualCloser(c); w itself is not touched.
DCNew(c) ==
    /\ ndCall' = [called |-> TRUE, closer |-> c,
                  ret |-> NewDualCloser(c).ret,
                  allocated |-> NewDualCloser(c).allocated]
    /\ UNCHANGED <<count, onceDone, onceMu, dcPc, dcKind, dcErr, closerEntered,
                   closerReturned, closerErr, dcStarted, dcReturned, dcWaited,
                   dcFirer>>
    /\ UNCHANGED <<cmdVars, termVars, spVars, epVars, wrVars>>

\* the steps of caller t inside Close() / CloseWrite()
DCSteps(t) ==
    \/ DCOnceFast(t)
    \/ DCOnceSlow(t)
    \/ DCOnceLock(t)
    \/ DCAdd(t)
    \/ (\E e \in CloserErrs : DCCloserReturns(t, e))
    \/ DCOnceUnlock(t)

DCClose(t) == DCCall(t, "Close")

DCCloseWrite(t) == DCCall(t, "CloseWrite")

NextDC ==
    \/ \E t \in DCCallers : DCClose(t)
    \/ \E t \in DCCallers : DCCloseWrite(t)
    \/ \E t \in DCCallers : DCOnceFast(t)
    \/ \E t \in DCCallers : DCOnceSlow(t)
    \/ \E t \in DCCallers : DCOnceLock(t)
    \/ \E t \in DCCallers : DCAdd(t)
    \/ \E t \in DCCallers : \E e \in CloserErrs : DCCloserReturns(t, e)
    \/ \E t \in DCCallers : DCOnceUnlock(t)
    \/ \E c \in ClosersIn : DCNew(c)

\* ========================================================================
\* Command
\* ========================================================================

commandStateDefault == 0

commandStateInit == 1

commandStateStart == 2

commandStateWait == 3

commandStateDone == 4

errCommandAlreadyInitialized == "Command: Already initialized"

errCommandNotInitialized == "Command: Not initialized"

errCommandIsATerminal == "Command: Is a Terminal"

errCommandNotATerminal == "Command: Not a Terminal"

errCommandNotRunning == "Command: Process is not running"

errCommandRunning == "Command: Process is running"

\* the errors of the Command itself
StateErrs == {errCommandAlreadyInitialized, errCommandNotInitialized,
              errCommandIsATerminal, errCommandNotATerminal,
              errCommandNotRunning, errCommandRunning}

\* threads: the callers, then the waiter goroutines, then the goroutines
\* running `go e.Cleanup()`
Callers == 1..NCallers

Waiters == (NCallers + 1)..(NCallers + MaxGo)

Cleaners == (NCallers + MaxGo + 1)..(NCallers + 2 * MaxGo)

Threads == Callers \cup Waiters \cup Cleaners

Result(c, e) == [code |-> c, err |-> e]

\* the methods of the Process interface
ProcMethods == {"Init", "Stdin", "Stdout", "Stderr", "Start", "Stop", "Wait",
                "Cleanup"}

\* what a method of the Process may return as its error: nil or its own error
ProcErrs(meth) == {NoErr, "err" \o meth}

\* what Process.Wait() may return: an exit code and nil or an error
ProcWaitResults == {Result(0, NoErr), Result(1, NoErr), Result(1, "errWait")}

\* a return of method o with result r
Returned(o, r) == [op |-> o, code |-> r.code, err |-> r.err]

\* where a thread is when its call has returned
Home(t) == IF t \in Callers THEN "idle" ELSE "exit"

\* a goroutine slot not yet used
FreeSlot(S) == CHOOSE g \in S : pc[g] = "off" /\ \A h \in S : pc[h] = "off" => g <= h

HasFreeSlot(S) == \E g \in S : pc[g] = "off"

Entered(meth) == [procCalls EXCEPT ![meth] = @ + 1]

InitCmd ==
    /\ state = commandStateDefault
    /\ isPty = FALSE
    /\ m = 0
    /\ waitChan = "nil"
    /\ waitExitCode = 0
    /\ waitErr = NoErr
    /\ cleanupDone = FALSE
    /\ cleanupMu = 0
    /\ cleanupErr = NoErr
    /\ pc = [t \in Threads |-> IF t \in Callers THEN "idle" ELSE "off"]
    /\ arg = [t \in Callers |-> FALSE]
    /\ waited = [w \in Waiters |-> Result(0, NoErr)]
    /\ lastRet = Returned("none", Result(0, NoErr))
    /\ mismatched = FALSE
    /\ startErr = "none"
    /\ procCalls = [meth \in ProcMethods |-> 0]
    /\ procWaitRet = Result(0, "none")
    /\ procCleanupRet = "none"

\* the fields written by wait()/waiter(), those of the cleanup Once, and the
\* record of what the Process returned
waitFields == <<waitChan, waitExitCode, waitErr>>

onceFields == <<cleanupDone, cleanupMu, cleanupErr>>

procHist == <<procWaitRet, procCleanupRet>>

\* the call of method o by thread t returns r (where e.m is held, the deferred
\* e.m.Unlock() is stated by the action itself)
Return(t, o, r) ==
    /\ pc' = [pc EXCEPT ![t] = Home(t)]
    /\ lastRet' = Returned(o, r)

\* caller t is free to call a method of the Command
Enter(t) ==
    /\ t \in Callers
    /\ pc[t] = "idle"

\* ---- Init ----------------------------------------------------------------

InitAlwaysMut(s) == TRUE

\* `e.state != commandStateDefault` does not hold
InitAllowed(s) == s = commandStateDefault

\* Init up to the call of e.Process.Init(ctx, isTty), with e.m held
InitBegin(t, isTty) ==
    /\ Enter(t)
    /\ m = 0
    /\ IF ~InitAllowed(state)
       THEN /\ Return(t, "Init", Result(0, errCommandAlreadyInitialized))
            /\ UNCHANGED <<m, procCalls, arg>>
       ELSE /\ procCalls["Init"] < MaxCalls
            /\ m' = t
            /\ procCalls' = Entered("Init")
            /\ arg' = [arg EXCEPT ![t] = isTty]
            /\ pc' = [pc EXCEPT ![t] = "Process.Init"]
            /\ UNCHANGED lastRet
    /\ UNCHANGED <<state, isPty, waitFields, onceFields, waited, mismatched,
                   procHist, dcVars, termVars, spVars, epVars, wrVars>>
    /\ UNCHANGED startErr

InitIgnoresErrMut(err) == FALSE

\* `err != nil` after e.Process.Init
InitFailed(err) == err # NoErr

\* e.Process.Init returns err; Init from there to its return
InitEnd(t, err) ==
    /\ pc[t] = "Process.Init"
    /\ IF InitFailed(err)
       THEN UNCHANGED <<state, isPty>>
       ELSE /\ state' = commandStateInit
            /\ isPty' = arg[t]
    /\ Return(t, "Init", Result(0, err))
    /\ arg' = [arg EXCEPT ![t] = FALSE]
    /\ m' = 0
    /\ UNCHANGED <<waitFields, onceFields, waited, mismatched, procCalls,
                   procHist, dcVars, termVars, spVars, epVars, wrVars>>
    /\ UNCHANGED startErr

\* ---- Start ---------------------------------------------------------------

\* what Start returns when `e.state != commandStateInit`
StartStateErr == errCommandIsATerminal

StartIgnoresPtyMut(p) == FALSE

\* `if e.isPty` in Start
StartRejects(p) == p

StartKeepsStateMut == commandStateInit

\* `e.state = commandStateStart` in Start
StartNextState == commandStateStart

\* Start up to `e.state = commandStateStart`, with e.m held
StartBegin(t) ==
    /\ Enter(t)
    /\ m = 0
    /\ IF state # commandStateInit
       THEN /\ Return(t, "Start", Result(0, StartStateErr))
            /\ UNCHANGED <<state, m, mismatched>>
       ELSE IF StartRejects(isPty)
       THEN /\ Return(t, "Start", Result(0, errCommandIsATerminal))
            /\ mismatched' = TRUE
            /\ UNCHANGED <<state, m>>
       ELSE /\ state' = StartNextState
            /\ m' = t
            /\ pc' = [pc EXCEPT ![t] = "streams"]
            /\ UNCHANGED <<lastRet, mismatched>>
    /\ UNCHANGED <<isPty, waitFields, onceFields, arg, waited, procCalls,
                   procHist, dcVars, termVars, spVars, epVars, wrVars>>
    /\ UNCHANGED startErr

\* the methods entered while fetching the streams when `failing` is the first
\* one to return an error ("none": all succeed)
StreamsEntered(failing) ==
    CASE failing = "Stdin" -> {"Stdin"}
      [] failing = "Stdout" -> {"Stdin", "Stdout"}
      [] OTHER -> {"Stdin", "Stdout", "Stderr"}

\* Start: e.Process.Stdin(), Stdout(), Stderr() in this order, returning the
\* first error; when all succeed the copying goroutines are started and
\* e.Process.Start("", nil, false) is entered.
StartStreams(t, failing) ==
    /\ pc[t] = "streams"
    /\ \A meth \in StreamsEntered(failing) : procCalls[meth] < MaxCalls
    /\ IF failing # "none"
       THEN /\ procCalls' = [meth \in ProcMethods |->
                   IF meth \in StreamsEntered(failing) THEN procCalls[meth] + 1
                   ELSE procCalls[meth]]
            /\ Return(t, "Start", Result(0, "err" \o failing))
            /\ startErr' = "err" \o failing
            /\ m' = 0
       ELSE /\ procCalls["Start"] < MaxCalls
            /\ procCalls' = [meth \in ProcMethods |->
                   IF meth \in StreamsEntered(failing) \cup {"Start"}
                   THEN procCalls[meth] + 1 ELSE procCalls[meth]]
            /\ pc' = [pc EXCEPT ![t] = "Process.Start"]
            /\ UNCHANGED <<lastRet, m, startErr>>
    /\ UNCHANGED <<state, isPty, waitFields, onceFields, arg, waited,
                   mismatched, procHist, dcVars, termVars, spVars, epVars, wrVars>>

\* e.Process.Start returns err to Start, which returns it
StartEnd(t, err) ==
    /\ pc[t] = "Process.Start"
    /\ Return(t, "Start", Result(0, err))
    /\ startErr' = err
    /\ m' = 0
    /\ UNCHANGED <<state, isPty, waitFields, onceFields, arg, waited,
                   mismatched, procCalls, procHist, dcVars, termVars, spVars, epVars, wrVars>>

\* ---- StartPty ------------------------------------------------------------

\* `if !e.isPty` in StartPty
StartPtyRejects(p) == ~p

\* StartPty up to the call of e.Process.Start(TERM, resizeChan, true)
StartPtyBegin(t) ==
    /\ Enter(t)
    /\ m = 0
    /\ IF state # commandStateInit
       THEN /\ Return(t, "StartPty", Result(0, errCommandNotInitialized))
            /\ UNCHANGED <<state, m, procCalls, mismatched>>
       ELSE IF StartPtyRejects(isPty)
       THEN /\ Return(t, "StartPty", Result(0, errCommandNotATerminal))
            /\ mismatched' = TRUE
            /\ UNCHANGED <<state, m, procCalls>>
       ELSE /\ procCalls["Start"] < MaxCalls
            /\ state' = commandStateStart
            /\ m' = t
            /\ procCalls' = Entered("Start")
            /\ pc' = [pc EXCEPT ![t] = "Process.StartPty"]
            /\ UNCHANGED <<lastRet, mismatched>>
    /\ UNCHANGED <<isPty, waitFields, onceFields, arg, waited, procHist,
                   dcVars, termVars, spVars, epVars, wrVars>>
    /\ UNCHANGED startErr

\* e.Process.Start returns err to StartPty, which returns it; on success the
\* two goroutines copying between tm and the pty are started first
StartPtyEnd(t, err) ==
    /\ pc[t] = "Process.StartPty"
    /\ Return(t, "StartPty", Result(0, err))
    /\ startErr' = err
    /\ m' = 0
    /\ UNCHANGED <<state, isPty, waitFields, onceFields, arg, waited,
                   mismatched, procCalls, procHist, dcVars, termVars, spVars, epVars, wrVars>>

\* ---- Wait ----------------------------------------------------------------

WaitAcceptsInitMut(s) == s \notin {commandStateInit, commandStateStart}

\* `if e.state != commandStateStart` in wait(), past the check for
\* commandStateWait and commandStateDone
WaitRejects(s) == s # commandStateStart

WaitKeepsStateMut == commandStateStart

\* `e.state = commandStateWait` in wait()
WaitNextState == commandStateWait

\* Wait: wait() as a whole, with e.m held: a state error, or joining the wait
\* in progress, or arming it (new channel, `go e.waiter()`)
WaitBegin(t) ==
    /\ Enter(t)
    /\ m = 0
    /\ IF state = commandStateWait \/ state = commandStateDone
       THEN /\ pc' = [pc EXCEPT ![t] = "<-waitChan"]
            /\ UNCHANGED <<state, waitChan, lastRet>>
       ELSE IF WaitRejects(state)
       THEN /\ Return(t, "Wait", Result(0, errCommandNotRunning))
            /\ UNCHANGED <<state, waitChan>>
       ELSE /\ HasFreeSlot(Waiters)
            /\ state' = WaitNextState
            /\ waitChan' = "open"
            /\ pc' = [pc EXCEPT ![t] = "<-waitChan",
                                ![FreeSlot(Waiters)] = "spawned"]
            /\ UNCHANGED lastRet
    /\ UNCHANGED <<isPty, m, waitExitCode, waitErr, onceFields, arg, waited,
                   mismatched, procCalls, procHist, dcVars, termVars, spVars, epVars, wrVars>>
    /\ UNCHANGED startErr

WaitResultZeroMut(c, e) == Result(0, e)

\* `return e.waitExitCode, e.waitErr`
WaitResult(c, e) == Result(c, e)

\* Wait: the receive from the closed e.waitChan, and the return
WaitEnd(t) ==
    /\ pc[t] = "<-waitChan"
    /\ waitChan = "closed"
    /\ Return(t, "Wait", WaitResult(waitExitCode, waitErr))
    /\ UNCHANGED <<state, isPty, m, waitFields, onceFields, arg, waited,
                   mismatched, procCalls, procHist, dcVars, termVars, spVars, epVars, wrVars>>
    /\ UNCHANGED startErr

\* ---- waiter --------------------------------------------------------------

\* the waiter goroutine enters e.Process.Wait()
WaiterBegin(w) ==
    /\ pc[w] = "spawned"
    /\ procCalls["Wait"] < MaxCalls
    /\ procCalls' = Entered("Wait")
    /\ pc' = [pc EXCEPT ![w] = "Process.Wait"]
    /\ UNCHANGED <<state, isPty, m, waitFields, onceFields, arg, waited,
                   lastRet, mismatched, procHist, dcVars, termVars, spVars, epVars, wrVars>>
    /\ UNCHANGED startErr

\* e.Process.Wait() returns r = (code, err) to the waiter
WaiterWaited(w, r) ==
    /\ pc[w] = "Process.Wait"
    /\ pc' = [pc EXCEPT ![w] = "lock"]
    /\ waited' = [waited EXCEPT ![w] = r]
    /\ procWaitRet' = r
    /\ UNCHANGED <<state, isPty, m, waitFields, onceFields, arg, lastRet,
                   mismatched, procCalls, procCleanupRet, dcVars, termVars, spVars, epVars, wrVars>>
    /\ UNCHANGED startErr

WaiterKeepsWaitingMut == commandStateWait

\* `e.state = commandStateDone` in waiter()
WaiterNextState == commandStateDone

NoCleanupGoroutineMut == "off"

\* `go e.Cleanup()`: where the new goroutine starts
CleanupGoroutine == "cleanup"

\* the waiter, with e.m held: the state, the stored result, `go e.Cleanup()`
\* and close(e.waitChan)
WaiterEnd(w) ==
    /\ pc[w] = "lock"
    /\ m = 0
    /\ HasFreeSlot(Cleaners)
    /\ state' = WaiterNextState
    /\ waitExitCode' = waited[w].code
    /\ waitErr' = waited[w].err
    /\ waitChan' = "closed"
    /\ waited' = [waited EXCEPT ![w] = Result(0, NoErr)]
    /\ pc' = [pc EXCEPT ![w] = "exit", ![FreeSlot(Cleaners)] = CleanupGoroutine]
    /\ UNCHANGED <<isPty, m, onceFields, arg, lastRet, mismatched, procCalls,
                   procHist, dcVars, termVars, spVars, epVars, wrVars>>
    /\ UNCHANGED startErr

\* ---- Stop ----------------------------------------------------------------

\* Stop up to the call of e.Process.Stop(), with e.m held
StopBegin(t) ==
    /\ Enter(t)
    /\ m = 0
    /\ IF state # commandStateStart /\ state # commandStateWait
       THEN /\ Return(t, "Stop", Result(0, errCommandNotRunning))
            /\ UNCHANGED <<m, procCalls>>
       ELSE IF state = commandStateDone
       THEN /\ Return(t, "Stop", Result(0, NoErr))
            /\ UNCHANGED <<m, procCalls>>
       ELSE /\ procCalls["Stop"] < MaxCalls
            /\ m' = t
            /\ procCalls' = Entered("Stop")
            /\ pc' = [pc EXCEPT ![t] = "Process.Stop"]
            /\ UNCHANGED lastRet
    /\ UNCHANGED <<state, isPty, waitFields, onceFields, arg, waited,
                   mismatched, procHist, dcVars, termVars, spVars, epVars, wrVars>>
    /\ UNCHANGED startErr

StopSwallowsErrMut(err) == Result(0, NoErr)

\* `return e.Process.Stop()`
StopResult(err) == Result(0, err)

\* e.Process.Stop() returns err, which Stop returns
StopEnd(t, err) ==
    /\ pc[t] = "Process.Stop"
    /\ Return(t, "Stop", StopResult(err))
    /\ m' = 0
    /\ UNCHANGED <<state, isPty, waitFields, onceFields, arg, waited,
                   mismatched, procCalls, procHist, dcVars, termVars, spVars, epVars, wrVars>>
    /\ UNCHANGED startErr

\* ---- Cleanup -------------------------------------------------------------

CleanupWhileWaitingMut(s) == s >= commandStateWait

CleanupOnceStartedMut(s) == s >= commandStateStart

\* `e.state != commandStateDone` does not hold
CleanupAllowed(s) == s = commandStateDone

\* Cleanup: cleanup() as a whole, with e.m held.  A caller enters it from
\* idle; the goroutine of `go e.Cleanup()` from its spawn.
CleanupBegin(t) ==
    /\ \/ Enter(t)
       \/ t \in Cleaners /\ pc[t] = "cleanup"
    /\ m = 0
    /\ IF ~CleanupAllowed(state)
       THEN Return(t, "Cleanup", Result(0, errCommandRunning))
       ELSE /\ pc' = [pc EXCEPT ![t] = "cleanupOnce.Do"]
            /\ UNCHANGED lastRet
    /\ UNCHANGED <<state, isPty, m, waitFields, onceFields, arg, waited,
                   mismatched, procCalls, procHist, dcVars, termVars, spVars, epVars, wrVars>>
    /\ UNCHANGED startErr

CleanupReturnsNilMut(e) == Result(0, NoErr)

\* `return e.cleanupErr`
CleanupResult(e) == Result(0, e)

\* cleanupOnce.Do when done is set (read so on the fast path, or under the
\* Once's mutex after waiting for it): f is not run, Cleanup returns
\* e.cleanupErr
CleanupOnceFast(t) ==
    /\ pc[t] = "cleanupOnce.Do"
    /\ cleanupDone
    /\ Return(t, "Cleanup", CleanupResult(cleanupErr))
    /\ UNCHANGED <<state, isPty, m, waitFields, onceFields, arg, waited,
                   mismatched, procCalls, procHist, dcVars, termVars, spVars, epVars, wrVars>>
    /\ UNCHANGED startErr

\* cleanupOnce.Do when done is unset: with the Once's mutex taken (a caller
\* finding it held waits here), f runs and enters e.Process.Cleanup()
CleanupOnceSlow(t) ==
    /\ pc[t] = "cleanupOnce.Do"
    /\ ~cleanupDone
    /\ cleanupMu = 0
    /\ procCalls["Cleanup"] < MaxCalls
    /\ cleanupMu' = t
    /\ procCalls' = Entered("Cleanup")
    /\ pc' = [pc EXCEPT ![t] = "Process.Cleanup"]
    /\ UNCHANGED <<state, isPty, m, waitFields, cleanupDone, cleanupErr, arg,
                   waited, lastRet, mismatched, procHist, dcVars, termVars, spVars, epVars, wrVars>>
    /\ UNCHANGED startErr

\* e.Process.Cleanup() returns err: `e.cleanupErr = ...`, the Once is done and
\* unlocked, and Cleanup returns e.cleanupErr
CleanupEnd(t, err) ==
    /\ pc[t] = "Process.Cleanup"
    /\ cleanupErr' = err
    /\ procCleanupRet' = err
    /\ cleanupDone' = TRUE
    /\ cleanupMu' = 0
    /\ Return(t, "Cleanup", CleanupResult(err))
    /\ UNCHANGED <<state, isPty, m, waitFields, arg, waited, mismatched,
                   procCalls, procWaitRet, dcVars, termVars, spVars, epVars, wrVars>>
    /\ UNCHANGED startErr

\* ========================================================================
\* Terminal (term/term.go) over package lowlevel.  A Terminal has no lock and
\* is used by one goroutine: each method is one step.
\* ========================================================================

ErrNotATerminal == "Terminal: File() is not a terminal"

\* a nil *lowlevel.TerminalState; the state the n-th call of SetRawTerminal
\* (or SetRawTerminalOutput) returns is n
NoState == 0

\* the functions called below a Terminal: those of package lowlevel and the
\* Close() of the wrapped io.ReadWriteCloser
LowFuncs == {"SetRawTerminal", "SetRawTerminalOutput", "ResetTerminal",
             "SetWinsize", "Close"}

\* lowlevel.SetRawTerminal / SetRawTerminalOutput hand on whatever state and
\* error the terminal library returned: a state or nil, an error or nil
LowSetOutcomes == [state : BOOLEAN, err : {NoErr, "errSetRaw"}]

\* SetRawTerminal "sets the terminal referred to by fd into raw mode and
\* returns it's previous state": the mode is set when a state comes back
\* without an error
LowSetApplies(o) == o.state /\ o.err = NoErr

\* ResetTerminal "resets the terminal mode referred to by fd into the mode
\* described by state", unless it fails
LowResetApplies(err) == err = NoErr

LowReturned(f, st, e) == [f |-> f, state |-> st, err |-> e]

TermReturned(o, e, v) == [op |-> o, err |-> e, val |-> v]

LowCalled(f) == [lowCalls EXCEPT ![f] = @ + 1]

InitTerm ==
    /\ handle = "none"
    /\ isTerminal = FALSE
    /\ inState = NoState
    /\ outState = NoState
    /\ lowCalls = [f \in LowFuncs |-> 0]
    /\ lowRet = LowReturned("none", NoState, NoErr)
    /\ inRaw = FALSE
    /\ outRaw = FALSE
    /\ termRet = TermReturned("none", NoErr, "nil")

\* NewTerminal(rwcloser): nilTerminal{} for nil, else a fileTerminal with
\* what lowlevel.GetFdInfo says of the descriptor
NewTerminal(rwcloser, tty) ==
    /\ handle = "none"
    /\ handle' = IF rwcloser = "nil" THEN "nilTerminal" ELSE "fileTerminal"
    /\ isTerminal' = (rwcloser # "nil" /\ tty)
    /\ termRet' = TermReturned("NewTerminal", NoErr, handle')
    /\ UNCHANGED <<inState, outState, lowCalls, lowRet, inRaw, outRaw, dcVars,
                   cmdVars, spVars, epVars, wrVars>>

\* IsTerminal()
IsTerminal ==
    /\ handle # "none"
    /\ termRet' = TermReturned("IsTerminal", NoErr,
                               IF handle = "fileTerminal" /\ isTerminal
                               THEN "true" ELSE "false")
    /\ UNCHANGED <<handle, isTerminal, inState, outState, lowCalls, lowRet,
                   inRaw, outRaw, dcVars,
                   cmdVars, spVars, epVars, wrVars>>

SetRawIgnoresTerminalMut(st) == st # NoState

SetRawIgnoresStateMut(st) == handle = "nilTerminal" \/ ~isTerminal

\* `if !t.isTerminal || t.inState != nil { return nil }` (and nilTerminal)
SetRawSkips(st) == handle = "nilTerminal" \/ ~isTerminal \/ st # NoState

\* `t.inState, err = lowlevel.SetRawTerminal(t.fd)`: the state stored
SetRawState(f, o) == IF o.state THEN lowCalls[f] + 1 ELSE NoState

\* SetRawInput()
SetRawInput(o) ==
    /\ handle # "none"
    /\ IF SetRawSkips(inState)
       THEN /\ termRet' = TermReturned("SetRawInput", NoErr, "nil")
            /\ UNCHANGED <<inState, lowCalls, lowRet, inRaw>>
       ELSE /\ lowCalls["SetRawTerminal"] < MaxLowCalls
            /\ lowCalls' = LowCalled("SetRawTerminal")
            /\ inState' = SetRawState("SetRawTerminal", o)
            /\ inRaw' = (inRaw \/ LowSetApplies(o))
            /\ lowRet' = LowReturned("SetRawTerminal", inState', o.err)
            /\ termRet' = TermReturned("SetRawInput", o.err, "nil")
    /\ UNCHANGED <<handle, isTerminal, outState, outRaw, dcVars,
                   cmdVars, spVars, epVars, wrVars>>

\* SetRawOutput()
SetRawOutput(o) ==
    /\ handle # "none"
    /\ IF SetRawSkips(outState)
       THEN /\ termRet' = TermReturned("SetRawOutput", NoErr, "nil")
            /\ UNCHANGED <<outState, lowCalls, lowRet, outRaw>>
       ELSE /\ lowCalls["SetRawTerminalOutput"] < MaxLowCalls
            /\ lowCalls' = LowCalled("SetRawTerminalOutput")
            /\ outState' = SetRawState("SetRawTerminalOutput", o)
            /\ outRaw' = (outRaw \/ LowSetApplies(o))
            /\ lowRet' = LowReturned("SetRawTerminalOutput", outState', o.err)
            /\ termRet' = TermReturned("SetRawOutput", o.err, "nil")
    /\ UNCHANGED <<handle, isTerminal, inState, inRaw, dcVars,
                   cmdVars, spVars, epVars, wrVars>>

RestoreKeepsStateMut(st) == st

\* `defer func() { t.inState = nil }()`
Restored(st) == NoState

\* RestoreInput(): lowlevel.ResetTerminal(t.fd, t.inState) returns err
RestoreInput(err) ==
    /\ handle # "none"
    /\ IF handle = "nilTerminal" \/ inState = NoState
       THEN /\ termRet' = TermReturned("RestoreInput", NoErr, "nil")
            /\ UNCHANGED <<inState, lowCalls, lowRet, inRaw>>
       ELSE /\ lowCalls["ResetTerminal"] < MaxLowCalls
            /\ lowCalls' = LowCalled("ResetTerminal")
            /\ lowRet' = LowReturned("ResetTerminal", inState, err)
            /\ inState' = Restored(inState)
            /\ inRaw' = (inRaw /\ ~LowResetApplies(err))
            /\ termRet' = TermReturned("RestoreInput", err, "nil")
    /\ UNCHANGED <<handle, isTerminal, outState, outRaw, dcVars,
                   cmdVars, spVars, epVars, wrVars>>

\* RestoreOutput(): lowlevel.ResetTerminal(t.fd, t.outState) returns err
RestoreOutput(err) ==
    /\ handle # "none"
    /\ IF handle = "nilTerminal" \/ outState = NoState
       THEN /\ termRet' = TermReturned("RestoreOutput", NoErr, "nil")
            /\ UNCHANGED <<outState, lowCalls, lowRet, outRaw>>
       ELSE /\ lowCalls["ResetTerminal"] < MaxLowCalls
            /\ lowCalls' = LowCalled("ResetTerminal")
            /\ lowRet' = LowReturned("ResetTerminal", outState, err)
            /\ outState' = Restored(outState)
            /\ outRaw' = (outRaw /\ ~LowResetApplies(err))
            /\ termRet' = TermReturned("RestoreOutput", err, "nil")
    /\ UNCHANGED <<handle, isTerminal, inState, inRaw, dcVars,
                   cmdVars, spVars, epVars, wrVars>>

\* GetSize(): lowlevel.GetWinsize(t.fd) returns err (and a size when nil)
GetSize(err) ==
    /\ handle # "none"
    /\ termRet' = IF handle = "nilTerminal" \/ ~isTerminal
                  THEN TermReturned("GetSize", ErrNotATerminal, "nil")
                  ELSE TermReturned("GetSize", err,
                                    IF err = NoErr THEN "size" ELSE "nil")
    /\ UNCHANGED <<handle, isTerminal, inState, outState, lowCalls, lowRet,
                   inRaw, outRaw, dcVars,
                   cmdVars, spVars, epVars, wrVars>>

\* `return lowlevel.SetWinsize(t.fd, size.Height, size.Width)`
ResizeResult(err) == err

\* ResizeTo(size): lowlevel.SetWinsize returns err
ResizeTo(err) ==
    /\ handle # "none"
    /\ IF handle = "nilTerminal" \/ ~isTerminal
       THEN /\ termRet' = TermReturned("ResizeTo", ErrNotATerminal, "nil")
            /\ UNCHANGED <<lowCalls, lowRet>>
       ELSE /\ lowCalls["SetWinsize"] < MaxLowCalls
            /\ lowCalls' = LowCalled("SetWinsize")
            /\ lowRet' = LowReturned("SetWinsize", NoState, err)
            /\ termRet' = TermReturned("ResizeTo", ResizeResult(err), "nil")
    /\ UNCHANGED <<handle, isTerminal, inState, outState, inRaw, outRaw, dcVars,
                   cmdVars, spVars, epVars, wrVars>>

CloseSwallowsErrMut(err) == NoErr

\* `return t.rwcloser.Close()`
CloseResult(err) == err

\* Close(): nil for the nilTerminal; the fileTerminal (whose rwcloser is
\* never nil) calls rwcloser.Close(), which returns err
Close(err) ==
    /\ handle # "none"
    /\ IF handle = "nilTerminal"
       THEN /\ termRet' = TermReturned("Close", NoErr, "nil")
            /\ UNCHANGED <<lowCalls, lowRet>>
       ELSE /\ lowCalls["Close"] < MaxLowCalls
            /\ lowCalls' = LowCalled("Close")
            /\ lowRet' = LowReturned("Close", NoState, err)
            /\ termRet' = TermReturned("Close", CloseResult(err), "nil")
    /\ UNCHANGED <<handle, isTerminal, inState, outState, inRaw, outRaw, dcVars,
                   cmdVars, spVars, epVars, wrVars>>

NextTerm ==
    \/ \E rwcloser \in {"nil", "file"} : \E tty \in BOOLEAN :
          NewTerminal(rwcloser, tty)
    \/ IsTerminal
    \/ \E o \in LowSetOutcomes : SetRawInput(o)
    \/ \E o \in LowSetOutcomes : SetRawOutput(o)
    \/ \E err \in {NoErr, "errReset"} : RestoreInput(err)
    \/ \E err \in {NoErr, "errReset"} : RestoreOutput(err)
    \/ \E err \in {NoErr, "errGetWinsize"} : GetSize(err)
    \/ \E err \in {NoErr, "errSetWinsize"} : ResizeTo(err)
    \/ \E err \in {NoErr, "errClose"} : Close(err)

\* ========================================================================
\* StreamingProcess: one caller (a Process is used by one caller at a time)
\* going through Init, Start, Wait and Cleanup; the output and input tasks
\* of the Streamer; the resize task; and the context, cancelled from outside.
\* ========================================================================

ctxErr == "context canceled"

\* sp.stdoutTerm, sp.stderrTerm and sp.stdinTerm after initTerm() (one tty
\* for stdout and stdin, stderrTerm left nil) or initPlain() (three pipes)
StdoutTerm(pty) == IF pty THEN "tty" ELSE "stdoutPipe"

StderrTerm(pty) == IF pty THEN "nil" ELSE "stderrPipe"

StdinIsOwnTerminalMut(pty) == "stdinPipe"

StdinTerm(pty) == IF pty THEN "tty" ELSE "stdinPipe"

\* lowlevel.GetFdInfo: the tty is a terminal, a pipe is none
IsATerminal(term) == term = "tty"

\* a pty flag as the Streamer records it
PtyFlag(b) == IF b THEN "true" ELSE "false"

SpReturned(o, c, e) == [op |-> o, code |-> c, err |-> e]

InitSP ==
    /\ spPc = "new"
    /\ spPty = FALSE
    /\ ptyTerm = "nil"
    /\ exited = FALSE
    /\ spRet = SpReturned("none", 0, NoErr)
    /\ streamsErr = NoErr
    /\ ctxDone = FALSE
    /\ outPc = "off"
    /\ outErr = NoErr
    /\ outDelivered = FALSE
    /\ inPc = "off"
    /\ inputDone = FALSE
    /\ restoreDone = FALSE
    /\ restoreMu = "free"
    /\ restoreRuns = 0
    /\ spIn = {}
    /\ spOut = {}
    /\ everRaw = FALSE
    /\ rzPc = "off"
    /\ rzTotal = 0
    /\ rzTaken = 0
    /\ rzClosed = FALSE
    /\ rzSize = 0
    /\ rzLocal = <<>>
    /\ rzRemote = <<>>
    /\ rzFailed = FALSE
    /\ strm = [initPty |-> "none", attachPty |-> "none", conn |-> FALSE,
               results |-> 0, detaches |-> 0]
    /\ startLog = <<>>
    /\ cleanups = 0
    /\ ptyCloses = 0

\* the context is cancelled
Cancel ==
    /\ ~ctxDone
    /\ ctxDone' = TRUE
    /\ UNCHANGED <<spPc, spPty, ptyTerm, exited, spRet, streamsErr>>
    /\ UNCHANGED <<spOutVars, spInVars, spOnceVars, spTokVars, spRzVars>>
    /\ UNCHANGED <<dcVars, cmdVars, termVars, epVars, wrVars, spStrVars>>

\* Init(ctx, isTerm): initTerm() or initPlain(), whose OpenTerminal / pipes
\* succeed or fail with err
SPInit(isTerm, err) ==
    /\ spPc = "new"
    /\ spPty' = isTerm
    /\ IF err = NoErr
       THEN /\ spPc' = "inited"
            /\ ptyTerm' = IF isTerm THEN "pty" ELSE "nil"
       ELSE /\ spPc' = "unusable"
            /\ UNCHANGED ptyTerm
    /\ spRet' = SpReturned("Init", 0, err)
    /\ UNCHANGED <<exited, streamsErr, ctxDone>>
    /\ UNCHANGED <<spOutVars, spInVars, spOnceVars, spTokVars, spRzVars>>
    /\ UNCHANGED <<dcVars, cmdVars, termVars, epVars, wrVars, spStrVars>>

\* Start(Term, resizeChan, isPty), its flag here wantsPty, up to the spawning of the resize task.
\* Command.Start and Command.StartPty hand over the flag they gave Init.
\* Streamer.Init(sp.ctx, Term, isPty) returns err;
\* in pty mode the task is spawned, and returns at once for a nil resizeChan.
\* The source behind resizeChan emits n sizes before it closes.
SPStart(wantsPty, err, nilChan, n) ==
    /\ spPc = "inited"
    /\ wantsPty = spPty
    /\ strm' = [strm EXCEPT !.initPty = PtyFlag(wantsPty)]
    /\ IF err # NoErr
       THEN /\ spPc' = "started"
            /\ spRet' = SpReturned("Start", 0, err)
            /\ startLog' = Append(startLog, "Streamer.Init")
            /\ UNCHANGED <<rzPc, rzTotal>>
       ELSE /\ spPc' = "setRawTerminals"
            /\ UNCHANGED spRet
            /\ IF wantsPty
               THEN /\ rzPc' = IF nilChan THEN "done" ELSE "recv"
                    /\ rzTotal' = IF nilChan THEN 0 ELSE n
                    /\ startLog' = startLog \o <<"Streamer.Init", "go resize">>
               ELSE /\ startLog' = Append(startLog, "Streamer.Init")
                    /\ UNCHANGED <<rzPc, rzTotal>>
    /\ UNCHANGED <<spPty, ptyTerm, exited, streamsErr, ctxDone>>
    /\ UNCHANGED <<rzTaken, rzClosed, rzSize, rzLocal, rzRemote, rzFailed>>
    /\ UNCHANGED <<spOutVars, spInVars, spOnceVars, spTokVars>>
    /\ UNCHANGED <<cleanups, ptyCloses>>
    /\ UNCHANGED <<dcVars, cmdVars, termVars, epVars, wrVars>>

\* term.SetRawInput() / SetRawOutput() on terminal term whose states are
\* held by the terminals in `held`: the terminals holding one afterwards
\* when the call below returns o
SetRawHeld(term, held, o) ==
    IF IsATerminal(term) /\ term \notin held /\ o.state
    THEN held \cup {term} ELSE held

\* its error: nil unless the call below is made and fails
SetRawErr(term, held, o) ==
    IF IsATerminal(term) /\ term \notin held THEN o.err ELSE NoErr

\* execAndStream: setRawTerminals(), that is stdoutTerm.SetRawInput(),
\* stderrTerm.SetRawInput(), stdoutTerm.SetRawOutput(), each returning at
\* the first error
SPSetRawTerminals(o1, o2, o3) ==
    /\ spPc = "setRawTerminals"
    /\ LET in1 == SetRawHeld(StdoutTerm(spPty), spIn, o1)
           e1 == SetRawErr(StdoutTerm(spPty), spIn, o1)
           in2 == IF e1 = NoErr THEN SetRawHeld(StderrTerm(spPty), in1, o2) ELSE in1
           e2 == IF e1 = NoErr THEN SetRawErr(StderrTerm(spPty), in1, o2) ELSE e1
           out3 == IF e2 = NoErr THEN SetRawHeld(StdoutTerm(spPty), spOut, o3) ELSE spOut
           e3 == IF e2 = NoErr THEN SetRawErr(StdoutTerm(spPty), spOut, o3) ELSE e2
       IN /\ spIn' = in2
          /\ spOut' = out3
          /\ everRaw' = (everRaw \/ in2 # {} \/ out3 # {})
          /\ IF e3 # NoErr
             THEN /\ spPc' = "started"
                  /\ spRet' = SpReturned("Start", 0, e3)
             ELSE /\ spPc' = "Attach"
                  /\ UNCHANGED spRet
    /\ startLog' = Append(startLog, "setRawTerminals")
    /\ UNCHANGED <<spPty, ptyTerm, exited, streamsErr, ctxDone>>
    /\ UNCHANGED <<spOutVars, spInVars, spOnceVars, spRzVars>>
    /\ UNCHANGED <<strm, cleanups, ptyCloses>>
    /\ UNCHANGED <<dcVars, cmdVars, termVars, epVars, wrVars>>

StreamsStartedAnywayMut(err) == TRUE

\* `if err := sp.Streamer.Attach(sp.ctx, isPty); err != nil { return err }`:
\* execAndStream goes on to the tasks only without an error
StreamsStarted(err) == err = NoErr

\* `sp.execAndStream(true)` in Start, and `sp.Streamer.Attach(sp.ctx, isPty)`
\* in execAndStream: the flag Attach gets when Start was handed wantsPty
AttachFlag(wantsPty) == TRUE

\* execAndStream: Streamer.Attach returns err (DockerExecStreamer.Attach
\* stores its connection when it succeeds); then the channels are made,
\* the two tasks are spawned and Start returns
SPAttach(err) ==
    /\ spPc = "Attach"
    /\ spPc' = "started"
    /\ spRet' = SpReturned("Start", 0, err)
    /\ strm' = [strm EXCEPT !.attachPty = PtyFlag(AttachFlag(strm.initPty = "true")),
                            !.conn = (err = NoErr)]
    /\ IF StreamsStarted(err)
       THEN /\ outPc' = "copy" /\ inPc' = "copy"
            /\ startLog' = startLog \o <<"Streamer.Attach", "go streams">>
       ELSE /\ startLog' = Append(startLog, "Streamer.Attach")
            /\ UNCHANGED <<outPc, inPc>>
    /\ UNCHANGED <<spPty, ptyTerm, exited, streamsErr, ctxDone>>
    /\ UNCHANGED <<outErr, outDelivered, inputDone>>
    /\ UNCHANGED <<spOnceVars, spTokVars, spRzVars>>
    /\ UNCHANGED <<cleanups, ptyCloses>>
    /\ UNCHANGED <<dcVars, cmdVars, termVars, epVars, wrVars>>

\* DockerExecStreamer.StreamOutput: the copy ends with err; with a nil
\* stderr (pty mode) restoreTerms() is called before the send
OutCopyEnds(err) ==
    /\ outPc = "copy"
    /\ outErr' = err
    /\ outPc' = IF StderrTerm(spPty) = "nil" THEN "restoreTerms" ELSE "send"
    /\ UNCHANGED outDelivered
    /\ UNCHANGED <<spMainVars, spInVars, spOnceVars, spTokVars, spRzVars>>
    /\ UNCHANGED <<dcVars, cmdVars, termVars, epVars, wrVars, spStrVars>>

\* DockerExecStreamer.StreamInput: the copy ends, CloseWrite(),
\* close(doneChan)
InCopyEnds ==
    /\ inPc = "copy"
    /\ inPc' = "done"
    /\ inputDone' = TRUE
    /\ UNCHANGED <<spMainVars, spOutVars, spOnceVars, spTokVars, spRzVars>>
    /\ UNCHANGED <<dcVars, cmdVars, termVars, epVars, wrVars, spStrVars>>

\* the body of restoreTerminals: stdoutTerm.RestoreInput(),
\* stderrTerm.RestoreInput(), stdinTerm.RestoreOutput(); a Restore wipes the
\* state whatever ResetTerminal returns
RestoredIn(held) == held \ {StdoutTerm(spPty), StderrTerm(spPty)}

RestoredOut(held) == held \ {StdinTerm(spPty)}

\* restoreTerms.Do: done is set (on the fast path, or found set once the
\* mutex is free again)
OnceIsDone == restoreDone /\ restoreMu = "free"

\* restoreTerms.Do: the mutex is taken and the body starts
OnceEnter(who) ==
    /\ ~restoreDone
    /\ restoreMu = "free"
    /\ restoreMu' = who
    /\ restoreRuns' = restoreRuns + 1
    /\ UNCHANGED restoreDone

\* the body has run: done is stored and the mutex released
OnceExit(who) ==
    /\ restoreMu = who
    /\ spIn' = RestoredIn(spIn)
    /\ spOut' = RestoredOut(spOut)
    /\ restoreDone' = TRUE
    /\ restoreMu' = "free"
    /\ UNCHANGED <<restoreRuns, everRaw>>

\* the output task in restoreTerms()
OutRestoreSkip ==
    /\ outPc = "restoreTerms"
    /\ OnceIsDone
    /\ outPc' = "send"
    /\ UNCHANGED <<outErr, outDelivered>>
    /\ UNCHANGED <<spMainVars, spInVars, spOnceVars, spTokVars, spRzVars>>
    /\ UNCHANGED <<dcVars, cmdVars, termVars, epVars, wrVars, spStrVars>>

OutRestoreEnter ==
    /\ outPc = "restoreTerms"
    /\ OnceEnter("out")
    /\ outPc' = "restoring"
    /\ UNCHANGED <<outErr, outDelivered>>
    /\ UNCHANGED <<spMainVars, spInVars, spTokVars, spRzVars>>
    /\ UNCHANGED <<dcVars, cmdVars, termVars, epVars, wrVars, spStrVars>>

OutRestoreExit ==
    /\ outPc = "restoring"
    /\ OnceExit("out")
    /\ outPc' = "send"
    /\ UNCHANGED <<outErr, outDelivered>>
    /\ UNCHANGED <<spMainVars, spInVars, spRzVars>>
    /\ UNCHANGED <<dcVars, cmdVars, termVars, epVars, wrVars, spStrVars>>

\* Wait() enters waitStreams() and its select
SPWait ==
    /\ spPc = "started"
    /\ spPc' = "select"
    /\ UNCHANGED <<spPty, ptyTerm, exited, spRet, streamsErr, ctxDone>>
    /\ UNCHANGED <<spOutVars, spInVars, spOnceVars, spTokVars, spRzVars>>
    /\ UNCHANGED <<dcVars, cmdVars, termVars, epVars, wrVars, spStrVars>>

InputDoneReturnsMut == "restoreTerminals"

\* `case <-sp.inputDoneChan: // wait for output also`
InputDoneNext == "select2"

\* `case err := <-sp.outputErrChan: return err`, in either select: the
\* output task, blocked in its send, hands over its value and ends
SelectOutput ==
    /\ spPc \in {"select", "select2"}
    /\ outPc = "send"
    /\ outPc' = "done"
    /\ outDelivered' = TRUE
    /\ streamsErr' = outErr
    /\ spPc' = "restoreTerminals"
    /\ UNCHANGED outErr
    /\ UNCHANGED <<spPty, ptyTerm, exited, spRet, ctxDone>>
    /\ UNCHANGED <<spInVars, spOnceVars, spTokVars, spRzVars>>
    /\ UNCHANGED <<dcVars, cmdVars, termVars, epVars, wrVars, spStrVars>>

\* `case <-sp.inputDoneChan:` of the outer select
SelectInputDone ==
    /\ spPc = "select"
    /\ inputDone
    /\ spPc' = InputDoneNext
    /\ UNCHANGED <<spPty, ptyTerm, exited, spRet, streamsErr, ctxDone>>
    /\ UNCHANGED <<spOutVars, spInVars, spOnceVars, spTokVars, spRzVars>>
    /\ UNCHANGED <<dcVars, cmdVars, termVars, epVars, wrVars, spStrVars>>

CtxCaseReturnsNilMut == NoErr

\* `case <-sp.ctx.Done(): return sp.ctx.Err()`
CtxCaseResult == ctxErr

SelectCtxDone ==
    /\ spPc \in {"select", "select2"}
    /\ ctxDone
    /\ streamsErr' = CtxCaseResult
    /\ spPc' = "restoreTerminals"
    /\ UNCHANGED <<spPty, ptyTerm, exited, spRet, ctxDone>>
    /\ UNCHANGED <<spOutVars, spInVars, spOnceVars, spTokVars, spRzVars>>
    /\ UNCHANGED <<dcVars, cmdVars, termVars, epVars, wrVars, spStrVars>>

\* `defer sp.restoreTerminals()` of waitStreams()
WaitRestoreSkip ==
    /\ spPc = "restoreTerminals"
    /\ OnceIsDone
    /\ spPc' = "Result"
    /\ UNCHANGED <<spPty, ptyTerm, exited, spRet, streamsErr, ctxDone>>
    /\ UNCHANGED <<spOutVars, spInVars, spOnceVars, spTokVars, spRzVars>>
    /\ UNCHANGED <<dcVars, cmdVars, termVars, epVars, wrVars, spStrVars>>

WaitRestoreEnter ==
    /\ spPc = "restoreTerminals"
    /\ OnceEnter("wait")
    /\ spPc' = "restoring"
    /\ UNCHANGED <<spPty, ptyTerm, exited, spRet, streamsErr, ctxDone>>
    /\ UNCHANGED <<spOutVars, spInVars, spTokVars, spRzVars>>
    /\ UNCHANGED <<dcVars, cmdVars, termVars, epVars, wrVars, spStrVars>>

WaitRestoreExit ==
    /\ spPc = "restoring"
    /\ OnceExit("wait")
    /\ spPc' = "Result"
    /\ UNCHANGED <<spPty, ptyTerm, exited, spRet, streamsErr, ctxDone>>
    /\ UNCHANGED <<spOutVars, spInVars, spRzVars>>
    /\ UNCHANGED <<dcVars, cmdVars, termVars, epVars, wrVars, spStrVars>>

ExitedAlwaysMut(was, err) == TRUE

\* `if err != nil { sp.exited = true }`
ExitedAfter(was, err) == was \/ err # NoErr

\* Wait() after waitStreams(): its error is returned with code 0; without
\* one Streamer.Result returns (code, err), and an error sets sp.exited
SPWaitEnd(code, err) ==
    /\ spPc = "Result"
    /\ spPc' = "waited"
    /\ IF streamsErr # NoErr
       THEN /\ spRet' = SpReturned("Wait", 0, streamsErr)
            /\ UNCHANGED <<exited, strm>>
       ELSE /\ spRet' = SpReturned("Wait", code, err)
            /\ exited' = ExitedAfter(exited, err)
            /\ strm' = [strm EXCEPT !.results = @ + 1]
    /\ UNCHANGED <<spPty, ptyTerm, streamsErr, ctxDone>>
    /\ UNCHANGED <<spOutVars, spInVars, spOnceVars, spTokVars, spRzVars>>
    /\ UNCHANGED <<startLog, cleanups, ptyCloses>>
    /\ UNCHANGED <<dcVars, cmdVars, termVars, epVars, wrVars>>

\* DockerExecStreamer.Detach: `des.conn.Close()` on the connection Attach
\* stored; without one des.conn is a nil pointer and the call panics
DetachPanics(conn) == ~conn

CleanupKeepsPtyMut == "pty"

\* `sp.ptyTerm = nil`
PtyTermAfterCleanup == "nil"

\* Cleanup(): with a pty, ptyTerm.Close(), Streamer.Detach and
\* `sp.ptyTerm = nil`; returns sp.exited.  Nothing waits for a task.  A panic
\* ends the whole program.
SPCleanup ==
    /\ spPc \in {"inited", "started", "waited", "cleaned"}
    /\ cleanups < MaxCleanups
    /\ cleanups' = cleanups + 1
    /\ IF ptyTerm # "nil"
       THEN /\ ptyCloses' = ptyCloses + 1
            /\ strm' = [strm EXCEPT !.detaches = @ + 1]
            /\ IF DetachPanics(strm.conn)
               THEN /\ spPc' = "panicked"
                    /\ UNCHANGED <<ptyTerm, spRet>>
               ELSE /\ spPc' = "cleaned"
                    /\ ptyTerm' = PtyTermAfterCleanup
                    /\ spRet' = SpReturned("Cleanup", 0,
                                           IF exited THEN "exited" ELSE NoErr)
       ELSE /\ spPc' = "cleaned"
            /\ spRet' = SpReturned("Cleanup", 0,
                                   IF exited THEN "exited" ELSE NoErr)
            /\ UNCHANGED <<ptyTerm, strm, ptyCloses>>
    /\ UNCHANGED <<spPty, exited, streamsErr, ctxDone>>
    /\ UNCHANGED <<spOutVars, spInVars, spOnceVars, spTokVars, spRzVars>>
    /\ UNCHANGED startLog
    /\ UNCHANGED <<dcVars, cmdVars, termVars, epVars, wrVars>>

\* the resize task: `for size := range resizeChan` receives the next size
\* (resizeChan has no buffer: a size is emitted as it is received)
RzReceive ==
    /\ spPc # "panicked"
    /\ rzPc = "recv"
    /\ rzTaken < rzTotal
    /\ rzTaken' = rzTaken + 1
    /\ rzSize' = rzTaken + 1
    /\ rzPc' = "ptyTerm.ResizeTo"
    /\ UNCHANGED <<rzTotal, rzClosed, rzLocal, rzRemote, rzFailed>>
    /\ UNCHANGED <<spMainVars, spOutVars, spInVars, spOnceVars, spTokVars>>
    /\ UNCHANGED <<dcVars, cmdVars, termVars, epVars, wrVars, spStrVars>>

\* the source closes resizeChan once it has emitted its sizes
RzSourceCloses ==
    /\ spPc # "panicked"
    /\ rzPc # "off"
    /\ ~rzClosed
    /\ rzTaken = rzTotal
    /\ rzClosed' = TRUE
    /\ UNCHANGED <<rzPc, rzTotal, rzTaken, rzSize, rzLocal, rzRemote, rzFailed>>
    /\ UNCHANGED <<spMainVars, spOutVars, spInVars, spOnceVars, spTokVars>>
    /\ UNCHANGED <<dcVars, cmdVars, termVars, epVars, wrVars, spStrVars>>

\* the range loop ends on the closed channel, and the task with it
RzEnds ==
    /\ spPc # "panicked"
    /\ rzPc = "recv"
    /\ rzClosed
    /\ rzTaken = rzTotal
    /\ rzPc' = "done"
    /\ UNCHANGED <<rzTotal, rzTaken, rzClosed, rzSize, rzLocal, rzRemote,
                   rzFailed>>
    /\ UNCHANGED <<spMainVars, spOutVars, spInVars, spOnceVars, spTokVars>>
    /\ UNCHANGED <<dcVars, cmdVars, termVars, epVars, wrVars, spStrVars>>

\* what the resize task reads in sp.ptyTerm: the read has no
\* synchronisation with the `sp.ptyTerm = nil` of Cleanup(), so that once
\* Cleanup() has run it yields the handle or nil
PtyTermRead == IF spPc = "cleaned" THEN {"pty", "nil"} ELSE {ptyTerm}

\* `sp.ptyTerm.ResizeTo(size)`: the call reaches the handle h read (a nil
\* *Terminal returns ErrNotATerminal); its error is dropped
RzLocal(h, err) ==
    /\ spPc # "panicked"
    /\ rzPc = "ptyTerm.ResizeTo"
    /\ h \in PtyTermRead
    /\ rzLocal' = IF h = "pty" THEN Append(rzLocal, rzSize) ELSE rzLocal
    /\ rzFailed' = (rzFailed \/ err # NoErr)
    /\ rzPc' = "Streamer.ResizeTo"
    /\ UNCHANGED <<rzTotal, rzTaken, rzClosed, rzSize, rzRemote>>
    /\ UNCHANGED <<spMainVars, spOutVars, spInVars, spOnceVars, spTokVars>>
    /\ UNCHANGED <<dcVars, cmdVars, termVars, epVars, wrVars, spStrVars>>

RzStopsOnErrorMut(err) == IF err = NoErr THEN "recv" ELSE "done"

\* the loop goes on to the next size whatever the two calls returned
RzNextAfter(err) == "recv"

\* `sp.Streamer.ResizeTo(sp.ctx, size)`; its error is dropped
RzRemote(err) ==
    /\ spPc # "panicked"
    /\ rzPc = "Streamer.ResizeTo"
    /\ rzRemote' = Append(rzRemote, rzSize)
    /\ rzFailed' = (rzFailed \/ err # NoErr)
    /\ rzPc' = RzNextAfter(err)
    /\ UNCHANGED <<rzTotal, rzTaken, rzClosed, rzSize, rzLocal>>
    /\ UNCHANGED <<spMainVars, spOutVars, spInVars, spOnceVars, spTokVars>>
    /\ UNCHANGED <<dcVars, cmdVars, termVars, epVars, wrVars, spStrVars>>

NextSP ==
    \/ Cancel
    \/ \E isTerm \in BOOLEAN : \E err \in {NoErr, "errInit"} : SPInit(isTerm, err)
    \/ \E wantsPty \in BOOLEAN : \E err \in {NoErr, "errStreamerInit"} :
          \E nilChan \in BOOLEAN : \E n \in 0..MaxSizes :
             SPStart(wantsPty, err, nilChan, n)
    \/ \E o1, o2, o3 \in LowSetOutcomes : SPSetRawTerminals(o1, o2, o3)
    \/ \E err \in {NoErr, "errAttach"} : SPAttach(err)
    \/ \E err \in {NoErr, "errCopy"} : OutCopyEnds(err)
    \/ InCopyEnds
    \/ OutRestoreSkip
    \/ OutRestoreEnter
    \/ OutRestoreExit
    \/ SPWait
    \/ SelectOutput
    \/ SelectInputDone
    \/ SelectCtxDone
    \/ WaitRestoreSkip
    \/ WaitRestoreEnter
    \/ WaitRestoreExit
    \/ \E code \in {0, 1} : \E err \in {NoErr, "errResult"} : SPWaitEnd(code, err)
    \/ SPCleanup
    \/ RzReceive
    \/ RzSourceCloses
    \/ RzEnds
    \/ \E h \in {"pty", "nil"} : \E err \in {NoErr, ErrNotATerminal, "errSetWinsize"} :
          RzLocal(h, err)
    \/ \E err \in {NoErr, "errResize"} : RzRemote(err)

\* ========================================================================
\* ExecProcess (a Process run through os/exec), used by one goroutine at a
\* time; the process itself exits on its own
\* ========================================================================

errExecStopFailure == "ExecProcess: Failed to kill process"

EpReturned(o, c, e) == [op |-> o, code |-> c, err |-> e]

InitEP ==
    /\ epCmd = FALSE
    /\ epProc = "nil"
    /\ epRet = EpReturned("none", 0, NoErr)
    /\ epKill = "none"
    /\ epPanicked = FALSE
    /\ epCalls = 0

\* a method of the ExecProcess is called
EpEnter ==
    /\ ~epPanicked
    /\ epCalls < MaxEpCalls
    /\ epCalls' = epCalls + 1

\* Init: exec.LookPath fails with err, or sp.cmd is a new exec.Cmd
EPInit(err) ==
    /\ EpEnter
    /\ IF err # NoErr
       THEN UNCHANGED <<epCmd, epProc>>
       ELSE epCmd' = TRUE /\ epProc' = "nil"
    /\ epRet' = EpReturned("Init", 0, err)
    /\ UNCHANGED <<epKill, epPanicked>>
    /\ UNCHANGED <<dcVars, cmdVars, termVars, spVars, wrVars>>

\* Start: sp.cmd.Start() or term.ExecTerminal(sp.cmd), which fail on a
\* command started before; a nil sp.cmd panics
EPStart(err) ==
    /\ EpEnter
    /\ IF ~epCmd
       THEN /\ epPanicked' = TRUE
            /\ UNCHANGED <<epProc, epRet>>
       ELSE /\ UNCHANGED epPanicked
            /\ IF epProc # "nil"
               THEN /\ epRet' = EpReturned("Start", 0, "errStart")
                    /\ UNCHANGED epProc
               ELSE /\ epRet' = EpReturned("Start", 0, err)
                    /\ epProc' = IF err = NoErr THEN "running" ELSE epProc
    /\ UNCHANGED <<epCmd, epKill>>
    /\ UNCHANGED <<dcVars, cmdVars, termVars, spVars, wrVars>>

\* the process exits
EPExit ==
    /\ ~epPanicked
    /\ epProc = "running"
    /\ epProc' = "exited"
    /\ UNCHANGED <<epCmd, epRet, epKill, epPanicked, epCalls>>
    /\ UNCHANGED <<dcVars, cmdVars, termVars, spVars, wrVars>>

\* Wait: sp.cmd.Wait() returns once the process has exited, with an error
\* that is no exit error when there is no process or it was waited for
\* before; then (255, wrapped error), otherwise (exit code, nil)
EPWait(code) ==
    /\ epProc # "running"
    /\ EpEnter
    /\ IF ~epCmd
       THEN /\ epPanicked' = TRUE
            /\ UNCHANGED <<epProc, epRet>>
       ELSE /\ UNCHANGED epPanicked
            /\ IF epProc = "exited"
               THEN /\ epProc' = "waited"
                    /\ epRet' = EpReturned("Wait", code, NoErr)
               ELSE /\ epRet' = EpReturned("Wait", 255, "errWait")
                    /\ UNCHANGED epProc
    /\ UNCHANGED <<epCmd, epKill>>
    /\ UNCHANGED <<dcVars, cmdVars, termVars, spVars, wrVars>>

\* how sp.cmd.Process.Kill() may end: with a nil sp.cmd the evaluation
\* panics; with a nil Process the call panics or returns an error, as the
\* os package has it; a process waited for is reported as finished; otherwise
\* the kill succeeds or fails
KillOutcomes ==
    IF ~epCmd THEN {"panic"}
    ELSE IF epProc = "nil" THEN {"panic", "errKill"}
    ELSE IF epProc = "waited" THEN {"errKill"}
    ELSE {NoErr, "errKill"}

\* the deferred function of Stop:
\* `if err == nil { recover(); err = errExecStopFailure }`
StopDeferred(err) == IF err = NoErr THEN errExecStopFailure ELSE err

\* Stop: `return sp.cmd.Process.Kill()` under the deferred function; during
\* a panic the named result err is still nil
EPStop(outcome) ==
    /\ EpEnter
    /\ outcome \in KillOutcomes
    /\ epKill' = outcome
    /\ epRet' = EpReturned("Stop", 0,
                   StopDeferred(IF outcome = "panic" THEN NoErr ELSE outcome))
    /\ epProc' = IF outcome = NoErr /\ epProc = "running" THEN "exited" ELSE epProc
    /\ UNCHANGED <<epCmd, epPanicked>>
    /\ UNCHANGED <<dcVars, cmdVars, termVars, spVars, wrVars>>

\* Cleanup: `sp.cmd.Process = nil`, which panics on a nil sp.cmd
EPCleanup ==
    /\ EpEnter
    /\ IF ~epCmd
       THEN /\ epPanicked' = TRUE
            /\ UNCHANGED <<epProc, epRet>>
       ELSE /\ epProc' = "nil"
            /\ epRet' = EpReturned("Cleanup", 0, NoErr)
            /\ UNCHANGED epPanicked
    /\ UNCHANGED <<epCmd, epKill>>
    /\ UNCHANGED <<dcVars, cmdVars, termVars, spVars, wrVars>>

NextEP ==
    \/ \E err \in {NoErr, "errLookPath"} : EPInit(err)
    \/ \E err \in {NoErr, "errStart"} : EPStart(err)
    \/ EPExit
    \/ \E code \in {0, 1} : EPWait(code)
    \/ \E outcome \in {NoErr, "errKill", "panic"} : EPStop(outcome)
    \/ EPCleanup

\* ========================================================================
\* lowlevel.WindowResize (the build for all systems but windows) and the
\* goroutine of monitorSize reading its channel
\* ========================================================================

InitWR ==
    /\ wrPc = "new"
    /\ sigNotify = FALSE
    /\ osSigCBuf = 0
    /\ notifyBuf = 0
    /\ notifyClosed = FALSE
    /\ forwardPc = "off"
    /\ initialPc = "off"
    /\ monitorPc = "off"
    /\ wscBuf = 0
    /\ signals = 0

\* the program has not been ended by a panic
WRAlive == forwardPc # "panicked"

\* monitorSize: WindowResize(initial) makes c and osSigC, registers osSigC
\* for SIGWINCH, spawns the forwarding goroutine and, with initial set, the
\* goroutine of the initial signal; monitorSize then spawns its own
WindowResize(initial) ==
    /\ wrPc = "new"
    /\ wrPc' = "running"
    /\ sigNotify' = TRUE
    /\ forwardPc' = "recv"
    /\ initialPc' = IF initial THEN "send" ELSE "off"
    /\ monitorPc' = "recv"
    /\ UNCHANGED <<osSigCBuf, notifyBuf, notifyClosed, wscBuf, signals>>
    /\ UNCHANGED <<dcVars, cmdVars, termVars, spVars, epVars>>

\* the window is resized: package signal puts SIGWINCH into osSigC without
\* blocking, dropping it when osSigC is full
Sigwinch ==
    /\ WRAlive
    /\ sigNotify
    /\ signals < MaxSignals
    /\ signals' = signals + 1
    /\ osSigCBuf' = 1
    /\ UNCHANGED <<wrPc, sigNotify, notifyBuf, notifyClosed, forwardPc,
                   initialPc, monitorPc, wscBuf>>
    /\ UNCHANGED <<dcVars, cmdVars, termVars, spVars, epVars>>

\* the goroutine of the initial signal: `osSigC <- syscall.SIGWINCH`
InitialSend ==
    /\ WRAlive
    /\ initialPc = "send"
    /\ osSigCBuf = 0
    /\ osSigCBuf' = 1
    /\ initialPc' = "done"
    /\ UNCHANGED <<wrPc, sigNotify, notifyBuf, notifyClosed, forwardPc,
                   monitorPc, wscBuf, signals>>
    /\ UNCHANGED <<dcVars, cmdVars, termVars, spVars, epVars>>

\* the forwarding goroutine: `for range osSigC` receives a signal
ForwardReceive ==
    /\ forwardPc = "recv"
    /\ osSigCBuf = 1
    /\ osSigCBuf' = 0
    /\ forwardPc' = "send"
    /\ UNCHANGED <<wrPc, sigNotify, notifyBuf, notifyClosed, initialPc,
                   monitorPc, wscBuf, signals>>
    /\ UNCHANGED <<dcVars, cmdVars, termVars, spVars, epVars>>

\* a send on a closed channel panics, and nothing in the forwarding
\* goroutine recovers
SendOnClosed == "panicked"

\* the forwarding goroutine: `c <- struct{}{}`, which waits while c is full
ForwardSend ==
    /\ forwardPc = "send"
    /\ IF notifyClosed
       THEN /\ forwardPc' = SendOnClosed
            /\ UNCHANGED notifyBuf
       ELSE /\ notifyBuf = 0
            /\ notifyBuf' = 1
            /\ forwardPc' = "recv"
    /\ UNCHANGED <<wrPc, sigNotify, osSigCBuf, notifyClosed, initialPc,
                   monitorPc, wscBuf, signals>>
    /\ UNCHANGED <<dcVars, cmdVars, termVars, spVars, epVars>>

\* cleanup(): signal.Reset(syscall.SIGWINCH) and close(c)
WRCleanup ==
    /\ WRAlive
    /\ wrPc = "running"
    /\ wrPc' = "cleaned"
    /\ sigNotify' = FALSE
    /\ notifyClosed' = TRUE
    /\ UNCHANGED <<osSigCBuf, notifyBuf, forwardPc, initialPc, monitorPc,
                   wscBuf, signals>>
    /\ UNCHANGED <<dcVars, cmdVars, termVars, spVars, epVars>>

\* monitorSize: `for range onResize` receives a value, or ends on the closed
\* and empty channel
MonitorReceive ==
    /\ WRAlive
    /\ monitorPc = "recv"
    /\ IF notifyBuf = 1
       THEN notifyBuf' = 0 /\ monitorPc' = "GetSize"
       ELSE notifyClosed /\ monitorPc' = "done" /\ UNCHANGED notifyBuf
    /\ UNCHANGED <<wrPc, sigNotify, osSigCBuf, notifyClosed, forwardPc,
                   initialPc, wscBuf, signals>>
    /\ UNCHANGED <<dcVars, cmdVars, termVars, spVars, epVars>>

\* monitorSize: term.GetSize(); without a size the loop goes on
MonitorGetSize(ok) ==
    /\ WRAlive
    /\ monitorPc = "GetSize"
    /\ monitorPc' = IF ok THEN "send" ELSE "recv"
    /\ UNCHANGED <<wrPc, sigNotify, osSigCBuf, notifyBuf, notifyClosed,
                   forwardPc, initialPc, wscBuf, signals>>
    /\ UNCHANGED <<dcVars, cmdVars, termVars, spVars, epVars>>

\* monitorSize: `wsc <- *size`, which waits while wsc is full
MonitorSend ==
    /\ WRAlive
    /\ monitorPc = "send"
    /\ wscBuf = 0
    /\ wscBuf' = 1
    /\ monitorPc' = "recv"
    /\ UNCHANGED <<wrPc, sigNotify, osSigCBuf, notifyBuf, notifyClosed,
                   forwardPc, initialPc, signals>>
    /\ UNCHANGED <<dcVars, cmdVars, termVars, spVars, epVars>>

\* the reader of wsc takes a size
WscReceive ==
    /\ WRAlive
    /\ wscBuf = 1
    /\ wscBuf' = 0
    /\ UNCHANGED <<wrPc, sigNotify, osSigCBuf, notifyBuf, notifyClosed,
                   forwardPc, initialPc, monitorPc, signals>>
    /\ UNCHANGED <<dcVars, cmdVars, termVars, spVars, epVars>>

ForwardSteps == ForwardReceive \/ ForwardSend

MonitorSteps ==
    MonitorReceive \/ (\E ok \in BOOLEAN : MonitorGetSize(ok)) \/ MonitorSend

NextWR ==
    \/ \E initial \in BOOLEAN : WindowResize(initial)
    \/ Sigwinch
    \/ InitialSend
    \/ ForwardReceive
    \/ ForwardSend
    \/ WRCleanup
    \/ MonitorReceive
    \/ \E ok \in BOOLEAN : MonitorGetSize(ok)
    \/ MonitorSend
    \/ WscReceive

\* ---- the specifications --------------------------------------------------

Next ==
    \/ \E t \in Callers : \E isTty \in BOOLEAN : InitBegin(t, isTty)
    \/ \E t \in Callers : \E err \in ProcErrs("Init") : InitEnd(t, err)
    \/ \E t \in Callers : StartBegin(t)
    \/ \E t \in Callers :
          \E failing \in {"Stdin", "Stdout", "Stderr", "none"} :
             StartStreams(t, failing)
    \/ \E t \in Callers : \E err \in ProcErrs("Start") : StartEnd(t, err)
    \/ \E t \in Callers : StartPtyBegin(t)
    \/ \E t \in Callers : \E err \in ProcErrs("Start") : StartPtyEnd(t, err)
    \/ \E t \in Callers : WaitBegin(t)
    \/ \E t \in Callers : WaitEnd(t)
    \/ \E w \in Waiters : WaiterBegin(w)
    \/ \E w \in Waiters : \E r \in ProcWaitResults : WaiterWaited(w, r)
    \/ \E w \in Waiters : WaiterEnd(w)
    \/ \E t \in Callers : StopBegin(t)
    \/ \E t \in Callers : \E err \in ProcErrs("Stop") : StopEnd(t, err)
    \/ \E t \in Callers \cup Cleaners : CleanupBegin(t)
    \/ \E t \in Callers \cup Cleaners : CleanupOnceFast(t)
    \/ \E t \in Callers \cup Cleaners : CleanupOnceSlow(t)
    \/ \E t \in Callers \cup Cleaners :
          \E err \in ProcErrs("Cleanup") : CleanupEnd(t, err)

\* the Command under concurrent callers (the wrapper stays untouched)
Init == InitCmd /\ InitDC /\ InitTerm /\ InitSP /\ InitEP /\ InitWR

Spec == Init /\ [][Next]_vars

\* What the scheduling grants the Command: a goroutine that can take a step
\* takes it; a goroutine waiting for e.m or for the mutex of cleanupOnce gets
\* it when it is released again and again (sync.Mutex hands a starving waiter
\* the lock); and a method of the Process entered with e.m held returns.
\* Nothing makes a caller call a method, and nothing makes Process.Wait() or
\* Process.Cleanup() return.
ProcessReturns(t) ==
    \/ (\E err \in ProcErrs("Init") : InitEnd(t, err))
    \/ (\E failing \in {"Stdin", "Stdout", "Stderr", "none"} : StartStreams(t, failing))
    \/ (\E err \in ProcErrs("Start") : StartEnd(t, err) \/ StartPtyEnd(t, err))
    \/ (\E err \in ProcErrs("Stop") : StopEnd(t, err))

Fairness ==
    /\ \A w \in Waiters : SF_vars(WaiterEnd(w))
    /\ \A c \in Cleaners :
          SF_vars(CleanupBegin(c) \/ CleanupOnceSlow(c) \/ CleanupOnceFast(c))
    /\ \A t \in Callers : WF_vars(WaitEnd(t)) /\ WF_vars(ProcessReturns(t))

FairSpec == Spec /\ Fairness

\* The normal lifecycle of a Command without a pty: the calls are made one
\* after the other (by any caller), Init(false), Start, Stop or not, Wait,
\* Cleanup; every method of the Process succeeds and Process.Wait() returns
\* (c, nil).
Sequential(t, ops) ==
    /\ \A u \in Callers : pc[u] = "idle"
    /\ lastRet.op \in ops

NextLife ==
    \/ \E t \in Callers : Sequential(t, {"none"}) /\ InitBegin(t, FALSE)
    \/ \E t \in Callers : InitEnd(t, NoErr)
    \/ \E t \in Callers : Sequential(t, {"Init"}) /\ StartBegin(t)
    \/ \E t \in Callers : StartStreams(t, "none")
    \/ \E t \in Callers : StartEnd(t, NoErr)
    \/ \E t \in Callers : Sequential(t, {"Start"}) /\ StopBegin(t)
    \/ \E t \in Callers : StopEnd(t, NoErr)
    \/ \E t \in Callers : Sequential(t, {"Start", "Stop"}) /\ WaitBegin(t)
    \/ \E t \in Callers : WaitEnd(t)
    \/ \E w \in Waiters : WaiterBegin(w)
    \/ \E w \in Waiters : \E r \in ProcWaitResults :
          r.err = NoErr /\ WaiterWaited(w, r)
    \/ \E w \in Waiters : WaiterEnd(w)
    \/ \E t \in Callers : Sequential(t, {"Wait", "Cleanup"}) /\ CleanupBegin(t)
    \/ \E c \in Cleaners : CleanupBegin(c)
    \/ \E t \in Callers \cup Cleaners : CleanupOnceFast(t)
    \/ \E t \in Callers \cup Cleaners : CleanupOnceSlow(t)
    \/ \E t \in Callers \cup Cleaners : CleanupEnd(t, NoErr)

SpecLife == Init /\ [][NextLife]_vars

\* one StreamingProcess, its caller, its tasks and its context
SpecSP == Init /\ [][NextSP]_vars

\* What the scheduling grants the StreamingProcess: Wait() goes on when it
\* can (a select with a ready case takes one, a free Once is entered, its
\* body and Streamer.Result return), and so do the output task inside
\* restoreTerms() and the resize task, whose ResizeTo calls return.  Nothing
\* makes a copy end, the context be cancelled, the source of sizes close, or
\* the caller call a method.
WaitSteps ==
    \/ SelectOutput \/ SelectInputDone \/ SelectCtxDone
    \/ WaitRestoreSkip \/ WaitRestoreEnter \/ WaitRestoreExit
    \/ (\E code \in {0, 1} : \E err \in {NoErr, "errResult"} : SPWaitEnd(code, err))

OutRestoreSteps == OutRestoreSkip \/ OutRestoreEnter \/ OutRestoreExit

RzSteps ==
    \/ RzReceive \/ RzEnds
    \/ (\E h \in {"pty", "nil"} : \E err \in {NoErr, ErrNotATerminal, "errSetWinsize"} :
           RzLocal(h, err))
    \/ (\E err \in {NoErr, "errResize"} : RzRemote(err))

FairnessSP == WF_vars(WaitSteps) /\ WF_vars(OutRestoreSteps) /\ WF_vars(RzSteps)

FairSpecSP == SpecSP /\ FairnessSP

\* one Terminal and its user
SpecTerm == Init /\ [][NextTerm]_vars

\* the DualCloserWrapper under concurrent callers (the Command stays untouched)
SpecDC == Init /\ [][NextDC]_vars

\* every caller inside Close() / CloseWrite() keeps running, and the wrapped
\* Closer.Close() returns
FairnessDC == \A t \in DCCallers : WF_vars(DCSteps(t))

FairSpecDC == SpecDC /\ FairnessDC

\* one ExecProcess and its user
SpecEP == Init /\ [][NextEP]_vars

\* WindowResize, its goroutines, the signals and monitorSize
SpecWR == Init /\ [][NextWR]_vars

\* the goroutines keep running and the reader of wsc keeps reading
FairnessWR ==
    /\ WF_vars(ForwardSteps)
    /\ WF_vars(MonitorSteps)
    /\ WF_vars(InitialSend)
    /\ WF_vars(WscReceive)

FairSpecWR == SpecWR /\ FairnessWR

\* ========================================================================
\* Properties of the DualCloserWrapper (checked under SpecDC)
\* ========================================================================

\* C1: the wrapped Closer.Close() is entered at most once, and never while
\* only Close() calls or only CloseWrite() calls have been made.
DualCloserSafety ==
    /\ closerEntered <= 1
    /\ closerEntered >= 1 => dcStarted = Kinds

\* the wrapped Close has been entered, with all callers having taken part
DualCloserSafetyWitness ==
    /\ closerEntered = 1
    /\ dcReturned = Kinds
    /\ \E t \in DCCallers : \E u \in DCCallers \ {t} :
          dcKind[t] = "Close" /\ dcKind[u] = "CloseWrite"

\* C2: once a Close() call and a CloseWrite() call have both returned, the
\* wrapped Closer.Close() has been entered exactly once and has returned; as
\* this holds in every later state too, no later call enters it again.
DualCloserCompletion ==
    dcReturned = Kinds => closerEntered = 1 /\ closerReturned = 1

\* both kinds have returned and a later call is in flight
DualCloserCompletionWitness ==
    /\ dcReturned = Kinds
    /\ closerReturned = 1
    /\ \E t \in DCCallers : dcPc[t] = "do"

\* ========================================================================
\* Properties of the Command (checked under Spec)
\* ========================================================================

\* the waiter goroutines spawned so far
SpawnedWaiters == {w \in Waiters : pc[w] # "off"}

\* the threads inside e.Process.Cleanup()
InProcessCleanup == {t \in Callers \cup Cleaners : pc[t] = "Process.Cleanup"}

\* C3: however many Wait() calls are made, one after another or at once, a
\* single waiter is spawned (exactly when the state has left Started for
\* Waiting) and Process.Wait() is entered at most once, and exactly once by
\* the time the state is Done or a Wait() call has returned a result.
WaitSingleWaiter ==
    /\ Cardinality(SpawnedWaiters) <= 1
    /\ procCalls["Wait"] <= 1
    /\ (state = commandStateWait \/ state = commandStateDone)
          <=> Cardinality(SpawnedWaiters) = 1
    /\ state = commandStateDone => procCalls["Wait"] = 1
    /\ (lastRet.op = "Wait" /\ lastRet.err # errCommandNotRunning)
          => procCalls["Wait"] = 1

\* all callers are blocked in Wait() at once, on one Process.Wait()
WaitSingleWaiterWitness ==
    /\ \A t \in Callers : pc[t] = "<-waitChan"
    /\ \E w \in Waiters : pc[w] = "Process.Wait"
    /\ procCalls["Wait"] = 1

\* C4: a Wait() call that is not refused with a state error returns the pair
\* that the one Process.Wait() call returned, and returns only in state Done.
WaitReturnsProcessResult ==
    (lastRet.op = "Wait" /\ lastRet.err # errCommandNotRunning)
       => /\ state = commandStateDone
          /\ Result(lastRet.code, lastRet.err) = procWaitRet
          /\ Result(lastRet.code, lastRet.err) = Result(waitExitCode, waitErr)

\* one Wait() call has returned the Process's (1, error) while another caller
\* is still blocked in its own Wait() call
WaitReturnsProcessResultWitness ==
    /\ lastRet = Returned("Wait", Result(1, "errWait"))
    /\ \E t \in Callers : pc[t] = "<-waitChan"
    /\ \E t \in Callers : pc[t] = "idle"

\* C5: Cleanup() finding a state before Done returns the "process running"
\* error at once, enters no method of the Process and leaves the state alone;
\* Process.Cleanup() is never entered before Done.
CleanupBeforeDone ==
    /\ [](procCalls["Cleanup"] > 0 => state = commandStateDone)
    /\ [][\A t \in Callers \cup Cleaners :
             (CleanupBegin(t) /\ state # commandStateDone)
                => /\ lastRet' = Returned("Cleanup", Result(0, errCommandRunning))
                   /\ pc'[t] = Home(t)
                   /\ state' = state
                   /\ procCalls' = procCalls
                   /\ UNCHANGED onceFields]_vars

\* Cleanup() was refused while the waiter is inside Process.Wait()
CleanupBeforeDoneWitness ==
    /\ lastRet = Returned("Cleanup", Result(0, errCommandRunning))
    /\ state = commandStateWait
    /\ \E w \in Waiters : pc[w] = "Process.Wait"
    /\ procCalls["Cleanup"] = 0

\* C6: after Done, Process.Cleanup() is entered at most once, and a
\* Cleanup() call that is not refused returns only once that one call has
\* returned, and returns the error it returned.
CleanupOnce ==
    /\ procCalls["Cleanup"] <= 1
    /\ (lastRet.op = "Cleanup" /\ lastRet.err # errCommandRunning)
          => /\ procCalls["Cleanup"] = 1
             /\ InProcessCleanup = {}
             /\ cleanupDone
             /\ lastRet.err = procCleanupRet

\* a Cleanup() call has returned the Process's error while the goroutine of
\* `go e.Cleanup()` and another caller have theirs under way or done
CleanupOnceWitness ==
    /\ lastRet = Returned("Cleanup", Result(0, "errCleanup"))
    /\ \E t \in Callers : pc[t] = "cleanupOnce.Do"
    /\ \E c \in Cleaners : pc[c] = "exit"

\* C7: Start() and StartPty() finding state Default return the "not
\* initialized" error, enter no method of the Process and leave the state
\* Default.
StartBeforeInit ==
    [][\A t \in Callers :
          ((StartBegin(t) \/ StartPtyBegin(t)) /\ state = commandStateDefault)
             => /\ lastRet'.err = errCommandNotInitialized
                /\ state' = commandStateDefault
                /\ procCalls' = procCalls]_vars

\* C8: the state only moves forward, one step at a time, between Default and
\* Done (so each of the four transitions is taken at most once).
StateMonotone ==
    /\ [](state \in commandStateDefault..commandStateDone)
    /\ [][state' = state \/ state' = state + 1]_vars

\* all four transitions have been taken
StateMonotoneWitness ==
    /\ state = commandStateDone
    /\ procCalls["Init"] = 2
    /\ procCalls["Stop"] = 2

\* C9: Init() finding a state other than Default returns "already
\* initialized" without entering Process.Init(); an error of Process.Init()
\* is returned as it is, leaving the state Default and the pty flag unset;
\* the state leaves Default only by a Process.Init() that returned nil, which
\* also records the pty flag.
InitFailureSemantics ==
    /\ [](state = commandStateDefault => ~isPty)
    /\ [][/\ \A t \in Callers : \A isTty \in BOOLEAN :
               (InitBegin(t, isTty) /\ state # commandStateDefault)
                  => /\ lastRet' = Returned("Init",
                                     Result(0, errCommandAlreadyInitialized))
                     /\ procCalls' = procCalls
                     /\ state' = state
                     /\ isPty' = isPty
          /\ \A t \in Callers : \A err \in ProcErrs("Init") :
               InitEnd(t, err)
                  => /\ lastRet' = Returned("Init", Result(0, err))
                     /\ IF err # NoErr
                        THEN state' = commandStateDefault /\ ~isPty'
                        ELSE state' = commandStateInit /\ isPty' = arg[t]
          /\ (state = commandStateDefault /\ state' # commandStateDefault)
               => \E t \in Callers : InitEnd(t, NoErr)]_vars

\* a first Process.Init() failed, a second succeeded asking for a pty, and a
\* further Init() was refused
InitFailureSemanticsWitness ==
    /\ procCalls["Init"] = 2
    /\ state = commandStateInit
    /\ isPty
    /\ lastRet = Returned("Init", Result(0, errCommandAlreadyInitialized))

\* C10: in state Initialized, Start() on a Command set up for a pty returns
\* "is a terminal" and StartPty() on one set up without returns "not a
\* terminal"; neither enters a method of the Process nor changes the state,
\* the pty flag or the mutex.
TerminalModeMismatch ==
    [][/\ \A t \in Callers :
            (StartBegin(t) /\ state = commandStateInit /\ isPty)
               => /\ lastRet' = Returned("Start", Result(0, errCommandIsATerminal))
                  /\ UNCHANGED <<state, isPty, m, procCalls>>
       /\ \A t \in Callers :
            (StartPtyBegin(t) /\ state = commandStateInit /\ ~isPty)
               => /\ lastRet' = Returned("StartPty",
                                         Result(0, errCommandNotATerminal))
                  /\ UNCHANGED <<state, isPty, m, procCalls>>]_vars

\* after a refused Start() on a pty Command, StartPty() has succeeded
TerminalModeMismatchWitness ==
    /\ mismatched
    /\ isPty
    /\ state = commandStateStart
    /\ lastRet = Returned("StartPty", Result(0, NoErr))

\* (it is the step from Initialized to Started, which no later step undoes) and
\* Process.Start() is entered at most once; every call that does not pass
\* returns an error at once without entering the Process, also after the call
\* that passed has returned an error of the Process.
StartAtMostOnce ==
    /\ [](procCalls["Start"] <= 1)
    /\ []((lastRet.op \in {"Start", "StartPty"} /\ lastRet.err = NoErr)
             => startErr = NoErr /\ procCalls["Start"] = 1)
    /\ [][/\ \A t \in Callers :
               (StartBegin(t) \/ StartPtyBegin(t))
                  => \/ /\ state = commandStateInit
                        /\ state' = commandStateStart
                        /\ m' = t
                     \/ /\ lastRet'.op \in {"Start", "StartPty"}
                        /\ lastRet'.err \in StateErrs
                        /\ pc'[t] = "idle"
                        /\ UNCHANGED <<state, m, procCalls>>
          /\ state >= commandStateStart => state' >= commandStateStart
          /\ startErr # "none" => startErr' = startErr]_vars

\* the call that passed failed in the Process, and a later Start() was refused
StartAtMostOnceWitness ==
    /\ startErr = "errStart"
    /\ procCalls["Start"] = 1
    /\ lastRet = Returned("Start", Result(0, errCommandIsATerminal))
    /\ state = commandStateStart

\* C12: Stop() finding state Done returns nil without entering Process.Stop().
StopAfterDone ==
    [][\A t \in Callers :
          (StopBegin(t) /\ state = commandStateDone)
             => /\ lastRet' = Returned("Stop", Result(0, NoErr))
                /\ procCalls' = procCalls]_vars

\* C13: Stop() finding state Started or Waiting enters Process.Stop() and
\* returns what it returns, touching neither the state nor the stored wait
\* result nor the cleanup Once, so that a later Wait() still returns what
\* Process.Wait() returned; Stop() finding state Default or Initialized
\* returns "not running" without entering the Process.
StopForwards ==
    /\ []((procCalls["Stop"] > 0 /\ lastRet.op = "Wait"
              /\ lastRet.err # errCommandNotRunning)
             => Result(lastRet.code, lastRet.err) = procWaitRet)
    /\ [][/\ \A t \in Callers :
               (StopBegin(t) /\ state \in {commandStateStart, commandStateWait})
                  => /\ procCalls' = Entered("Stop")
                     /\ pc'[t] = "Process.Stop"
                     /\ UNCHANGED <<state, waitFields, onceFields, lastRet>>
          /\ \A t \in Callers : \A err \in ProcErrs("Stop") :
               StopEnd(t, err)
                  => /\ lastRet' = Returned("Stop", Result(0, err))
                     /\ UNCHANGED <<state, waitFields, onceFields, procCalls>>
          /\ \A t \in Callers :
               (StopBegin(t) /\ state \in {commandStateDefault, commandStateInit})
                  => /\ lastRet' = Returned("Stop", Result(0, errCommandNotRunning))
                     /\ UNCHANGED <<state, waitFields, onceFields, procCalls>>]_vars

\* Process.Stop() was entered twice, and Wait() then returned the (1, nil) of
\* Process.Wait()
StopForwardsWitness ==
    /\ procCalls["Stop"] = 2
    /\ lastRet = Returned("Wait", Result(1, NoErr))
    /\ procWaitRet = Result(1, NoErr)

\* a start call has returned an error of the Process, or an Init() call has
\* (the state is still Default with Process.Init() entered and returned)
FailedEarlier ==
    \/ startErr \notin {"none", NoErr}
    \/ /\ state = commandStateDefault
       /\ procCalls["Init"] > 0
       /\ \A t \in Callers : pc[t] # "Process.Init"

\* C15: once a start call or an Init() call has returned an error of the
\* Process, a Cleanup() call is not refused with a state error and goes on to
\* the cleanup Once (and so to Process.Cleanup()).
CleanupAfterError ==
    [][\A t \in Callers :
          (CleanupBegin(t) /\ FailedEarlier)
             => /\ pc'[t] = "cleanupOnce.Do"
                /\ lastRet' = lastRet]_vars

\* C16: no method of the Process is entered more than once.
ProcessMethodsAtMostOnce ==
    \A meth \in ProcMethods : procCalls[meth] <= 1

\* C14: once Process.Wait() has returned, the state becomes Done and
\* Process.Cleanup() is entered, once, whether or not a caller calls
\* Cleanup(); and every caller blocked in Wait() returns.
AutomaticCleanup ==
    /\ [](procCalls["Cleanup"] <= 1)
    /\ (\E w \in Waiters : pc[w] = "lock")
          ~> (state = commandStateDone /\ procCalls["Cleanup"] = 1)
    /\ \A t \in Callers :
          (pc[t] = "<-waitChan" /\ procWaitRet.err # "none") ~> (pc[t] = "idle")

\* the goroutine of `go e.Cleanup()` has entered Process.Cleanup() while every
\* caller was blocked in Wait(), the last of them having just returned
AutomaticCleanupWitness ==
    /\ \E c \in Cleaners : pc[c] = "Process.Cleanup"
    /\ lastRet.op = "Wait"
    /\ lastRet.err = NoErr
    /\ \A t \in Callers : pc[t] \in {"idle", "<-waitChan"}
    /\ \E t \in Callers : pc[t] = "<-waitChan"

\* C17: in the normal lifecycle without a pty (Init(false), Start, Stop or
\* not, Wait, Cleanup, the Process succeeding throughout) every call returns
\* nil, Wait returns the exit code of the Process with a nil error,
\* Process.Init() and Process.Cleanup() have been entered by the time a
\* Cleanup returns, and Process.Stop() is entered exactly when Stop is called.
NormalLifecycle ==
    /\ [](lastRet.err = NoErr)
    /\ [](lastRet.op = "Wait"
            => lastRet.code = procWaitRet.code /\ procWaitRet.err = NoErr)
    /\ [](lastRet.op = "Cleanup"
            => procCalls["Init"] = 1 /\ procCalls["Cleanup"] = 1)
    /\ [][/\ (\E t \in Callers : StopBegin(t))
               <=> procCalls'["Stop"] = procCalls["Stop"] + 1
          /\ procCalls'["Stop"] \in {procCalls["Stop"], procCalls["Stop"] + 1}]_vars
    /\ [](lastRet.op = "Stop" => procCalls["Stop"] = 1)

\* a caller's Cleanup() has returned nil, ahead of the goroutine of
\* `go e.Cleanup()`, after a lifecycle with a Stop and the exit code 1
NormalLifecycleWitness ==
    /\ lastRet = Returned("Cleanup", Result(0, NoErr))
    /\ \E c \in Cleaners : pc[c] = "cleanup"
    /\ procWaitRet = Result(1, NoErr)
    /\ procCalls["Init"] = 1
    /\ procCalls["Stop"] = 1
    /\ procCalls["Cleanup"] = 1

\* ========================================================================
\* Properties of the Terminal (checked under SpecTerm)
\* ========================================================================

\* a step of each method of the Terminal
SetRawInputStep == \E o \in LowSetOutcomes : SetRawInput(o)
SetRawOutputStep == \E o \in LowSetOutcomes : SetRawOutput(o)
RestoreInputStep == \E err \in {NoErr, "errReset"} : RestoreInput(err)
RestoreOutputStep == \E err \in {NoErr, "errReset"} : RestoreOutput(err)
GetSizeStep == \E err \in {NoErr, "errGetWinsize"} : GetSize(err)
ResizeToStep == \E err \in {NoErr, "errSetWinsize"} : ResizeTo(err)
CloseStep == \E err \in {NoErr, "errClose"} : Close(err)

\* the handle of a nil descriptor, or of a descriptor that is no terminal
NotATerminal ==
    \/ handle = "nilTerminal"
    \/ handle = "fileTerminal" /\ ~isTerminal

\* what a method of a handle that is no terminal leaves alone
NonTerminalUntouched ==
    UNCHANGED <<handle, isTerminal, inState, outState, lowCalls, lowRet,
                inRaw, outRaw>>

\* every method but Close() of a handle that is no terminal
NonTerminalMethods ==
    /\ IsTerminal => termRet'.val = "false" /\ NonTerminalUntouched
    /\ (GetSizeStep \/ ResizeToStep)
          => termRet'.err = ErrNotATerminal /\ NonTerminalUntouched
    /\ (SetRawInputStep \/ SetRawOutputStep \/ RestoreInputStep \/ RestoreOutputStep)
          => termRet'.err = NoErr /\ NonTerminalUntouched

\* C18 as stated: on a handle that is no terminal IsTerminal() is false,
\* GetSize() and ResizeTo() return ErrNotATerminal, SetRaw*/Restore* return
\* nil and change nothing, and Close() returns nil.
NonTerminalHandleCloseNil ==
    [][NotATerminal => /\ NonTerminalMethods
                       /\ CloseStep => termRet'.err = NoErr]_vars

\* C18: on a handle that is no terminal IsTerminal() is false, GetSize() and
\* ResizeTo() return ErrNotATerminal, SetRaw*/Restore* return nil and change
\* nothing; Close() returns nil on the handle of a nil descriptor and, on a
\* handle wrapping a descriptor, closes it and returns what its Close()
\* returned.
NonTerminalHandle ==
    [][NotATerminal =>
         /\ NonTerminalMethods
         /\ (CloseStep /\ handle = "nilTerminal")
               => termRet'.err = NoErr /\ NonTerminalUntouched
         /\ (CloseStep /\ handle = "fileTerminal")
               => /\ lowCalls' = LowCalled("Close")
                  /\ lowRet'.f = "Close"
                  /\ termRet'.err = lowRet'.err
                  /\ UNCHANGED <<handle, isTerminal, inState, outState>>]_vars

\* Close() of a handle wrapping a descriptor that is no terminal has returned
\* the error of the descriptor's Close(), with nothing else called below
NonTerminalHandleWitness ==
    /\ handle = "fileTerminal"
    /\ ~isTerminal
    /\ termRet = TermReturned("Close", "errClose", "nil")
    /\ lowCalls = [f \in LowFuncs |-> IF f = "Close" THEN 1 ELSE 0]
    /\ inState = NoState
    /\ outState = NoState

\* a handle that is a terminal
ATerminal == handle = "fileTerminal" /\ isTerminal

\* C19: on a terminal, SetRawInput() with no state stored (never set, or
\* restored) calls lowlevel.SetRawTerminal, stores the state it returned, a new
\* one, and returns its error; RestoreInput() with a state stored hands it to
\* lowlevel.ResetTerminal, returns its error and clears the state, so that
\* SetRawInput, RestoreInput, SetRawInput sets raw mode twice.  Likewise for
\* the output.
RawModeReusable ==
    /\ [](inState \in {NoState, lowCalls["SetRawTerminal"]})
    /\ [](outState \in {NoState, lowCalls["SetRawTerminalOutput"]})
    /\ [][ATerminal =>
            /\ (SetRawInputStep /\ inState = NoState)
                  => /\ lowCalls' = LowCalled("SetRawTerminal")
                     /\ lowRet'.f = "SetRawTerminal"
                     /\ termRet'.err = lowRet'.err
                     /\ inState' = lowRet'.state
            /\ (SetRawOutputStep /\ outState = NoState)
                  => /\ lowCalls' = LowCalled("SetRawTerminalOutput")
                     /\ lowRet'.f = "SetRawTerminalOutput"
                     /\ termRet'.err = lowRet'.err
                     /\ outState' = lowRet'.state
            /\ (RestoreInputStep /\ inState # NoState)
                  => /\ lowCalls' = LowCalled("ResetTerminal")
                     /\ lowRet'.f = "ResetTerminal"
                     /\ lowRet'.state = inState
                     /\ termRet'.err = lowRet'.err
                     /\ inState' = NoState
            /\ (RestoreOutputStep /\ outState # NoState)
                  => /\ lowCalls' = LowCalled("ResetTerminal")
                     /\ lowRet'.f = "ResetTerminal"
                     /\ lowRet'.state = outState
                     /\ termRet'.err = lowRet'.err
                     /\ outState' = NoState]_vars

\* SetRawInput, RestoreInput, SetRawInput: the second SetRawInput() has
\* returned nil and stored the state of the second call of SetRawTerminal
RawModeReusableWitness ==
    /\ ATerminal
    /\ termRet = TermReturned("SetRawInput", NoErr, "nil")
    /\ lowRet = LowReturned("SetRawTerminal", 2, NoErr)
    /\ inState = 2
    /\ lowCalls = [f \in LowFuncs |->
                     CASE f = "SetRawTerminal" -> 2
                       [] f = "ResetTerminal" -> 1
                       [] OTHER -> 0]

\* C20: SetRawInput()/SetRawOutput() with a state stored returns nil, calls
\* nothing below and keeps the state; RestoreInput()/RestoreOutput() with no
\* state stored returns nil and calls nothing below; a method for the input
\* never changes the state of the output, and conversely.
RawModeIdempotent ==
    [][/\ (SetRawInputStep /\ inState # NoState)
             => termRet'.err = NoErr /\ UNCHANGED <<inState, lowCalls, lowRet>>
       /\ (SetRawOutputStep /\ outState # NoState)
             => termRet'.err = NoErr /\ UNCHANGED <<outState, lowCalls, lowRet>>
       /\ (RestoreInputStep /\ inState = NoState)
             => termRet'.err = NoErr /\ UNCHANGED <<inState, lowCalls, lowRet>>
       /\ (RestoreOutputStep /\ outState = NoState)
             => termRet'.err = NoErr /\ UNCHANGED <<outState, lowCalls, lowRet>>
       /\ (SetRawInputStep \/ RestoreInputStep) => outState' = outState
       /\ (SetRawOutputStep \/ RestoreOutputStep) => inState' = inState]_vars

\* SetRawInput(), SetRawOutput(), then SetRawInput() again: it has returned
\* nil with both states kept and nothing called below since SetRawOutput()
RawModeIdempotentWitness ==
    /\ ATerminal
    /\ termRet = TermReturned("SetRawInput", NoErr, "nil")
    /\ lowRet = LowReturned("SetRawTerminalOutput", 1, NoErr)
    /\ inState = 1
    /\ outState = 1
    /\ lowCalls["SetRawTerminal"] = 1
    /\ lowCalls["ResetTerminal"] = 0

\* C21: a terminal handle holds a state for the input (the output) exactly
\* when the input (the output) of the descriptor is in raw mode, whatever
\* the calls below returned; a stored state is given up only by a restore
\* whose lowlevel.ResetTerminal succeeded.
RawStateInvariant ==
    /\ [](ATerminal => ((inState # NoState) <=> inRaw))
    /\ [](ATerminal => ((outState # NoState) <=> outRaw))
    /\ [][/\ (inState # NoState /\ inState' = NoState)
                => lowRet' = LowReturned("ResetTerminal", inState, NoErr)
          /\ (outState # NoState /\ outState' = NoState)
                => lowRet' = LowReturned("ResetTerminal", outState, NoErr)]_vars

\* C22: Close() called again on a handle closes nothing: the descriptor's
\* Close() is called once at most, and a Close() after the first returns nil
\* and calls nothing below.
CloseIdempotent ==
    /\ [](lowCalls["Close"] <= 1)
    /\ [][(CloseStep /\ lowCalls["Close"] >= 1)
             => termRet'.err = NoErr /\ lowCalls' = lowCalls]_vars

\* C23: ResizeTo() on a terminal returns nil whatever lowlevel.SetWinsize
\* returned, and ErrNotATerminal exactly on a handle that is no terminal.
ResizeBestEffort ==
    [][ResizeToStep
          => termRet'.err = IF ATerminal THEN NoErr ELSE ErrNotATerminal]_vars

\* ========================================================================
\* Properties of the StreamingProcess (checked under SpecSP and FairSpecSP)
\* ========================================================================

\* Wait() is between its entry and its return
InWait == spPc \in {"select", "select2", "restoreTerminals", "restoring", "Result"}

SPWaitEndStep ==
    \E code \in {0, 1} : \E err \in {NoErr, "errResult"} : SPWaitEnd(code, err)

\* C24: Wait() never takes the end of the input for the end of the run:
\* waitStreams() returns something else than the error of the context only
\* with the value of the output task received, and so does Wait(); once the
\* input is done Wait() stays in the inner select until the output task
\* hands over its value or the context is cancelled.
WaitNeedsOutput ==
    /\ []((spPc \in {"restoreTerminals", "restoring", "Result"} /\ streamsErr # ctxErr)
             => outDelivered)
    /\ []((spRet.op = "Wait" /\ spRet.err # ctxErr) => outDelivered)
    /\ [][/\ SelectInputDone => (spPc' = "select2" /\ UNCHANGED <<streamsErr, spRet>>)
          /\ (spPc = "select2" /\ spPc' # "select2")
                => \/ ~outDelivered /\ outDelivered' /\ streamsErr' = outErr
                   \/ ctxDone /\ streamsErr' = ctxErr]_vars

\* the input is done, the output task is still copying, the context is not
\* cancelled: Wait() is blocked in the inner select
WaitNeedsOutputWitness ==
    /\ spPc = "select2"
    /\ inPc = "done"
    /\ outPc = "copy"
    /\ ~ctxDone

\* C25 as stated: once the context is cancelled a Wait() in progress
\* returns, and a Wait() returning with the context cancelled returns the
\* error of the context, whatever the tasks are doing.
CancelUnblocksWait ==
    /\ (ctxDone /\ InWait) ~> ~InWait
    /\ [][(SPWaitEndStep /\ ctxDone) => spRet'.err = ctxErr]_vars

\* C25: once the context is cancelled a Wait() in progress returns; its
\* select leaves with the error of the context unless it receives the value
\* of the output task, which it can only when that value is ready; and a
\* Wait() returning with the context cancelled returns the error of the
\* context or has received the value of the output task.
CancelUnblocksWaitOrOutput ==
    /\ (ctxDone /\ InWait) ~> ~InWait
    /\ [][/\ (SPWaitEndStep /\ ctxDone) => (spRet'.err = ctxErr \/ outDelivered)
          /\ (spPc \in {"select", "select2"} /\ spPc' = "restoreTerminals" /\ outPc # "send")
                => (ctxDone /\ streamsErr' = ctxErr)
          /\ SelectCtxDone => streamsErr' = ctxErr
          /\ (SPWaitEndStep /\ streamsErr = ctxErr) => spRet'.err = ctxErr]_vars

\* Wait() has returned the error of the context while the output task had
\* its value ready
CancelUnblocksWaitOrOutputWitness ==
    /\ spRet = SpReturned("Wait", 0, ctxErr)
    /\ outPc = "send"
    /\ ctxDone
    /\ ~outDelivered

\* C26: the body of restoreTerminals runs once at most, it has run when
\* waitStreams() has returned, whichever way, and once it has run no
\* terminal holds a state any more, neither after Wait() nor later.
RestoreExactlyOnce ==
    /\ [](restoreRuns <= 1)
    /\ [](spPc \in {"Result", "waited"}
            => restoreDone /\ restoreRuns = 1 /\ restoreMu = "free")
    /\ [](restoreDone => restoreRuns = 1 /\ spIn = {} /\ spOut = {})

\* Start stored states, the output task ran the body, and Wait() has
\* returned through the cancellation
RestoreExactlyOnceWitness ==
    /\ spPc = "waited"
    /\ everRaw
    /\ spRet = SpReturned("Wait", 0, ctxErr)
    /\ outPc = "send"
    /\ restoreRuns = 1

Range(f) == {f[i] : i \in DOMAIN f}

\* the sizes 1..k in the order of their emission
Sizes(k) == [i \in 1..k |-> i]

\* a sequence of sizes in the order of their emission, perhaps with gaps
InEmissionOrder(q) == \A i, j \in 1..Len(q) : i < j => q[i] < q[j]

RzLocalStep ==
    \E h \in {"pty", "nil"} : \E err \in {NoErr, ErrNotATerminal, "errSetWinsize"} :
       RzLocal(h, err)

\* what holds of the calls to the Streamer and of the task
ResizeForwardingRemote ==
    /\ [](rzRemote = Sizes(Len(rzRemote)))
    /\ [](Len(rzRemote) = IF rzPc \in {"ptyTerm.ResizeTo", "Streamer.ResizeTo"}
                          THEN rzTaken - 1 ELSE rzTaken)
    /\ [](rzPc = "done" => rzRemote = Sizes(rzTotal))
    /\ [](~spPty => (rzPc = "off" /\ rzLocal = <<>> /\ rzRemote = <<>>))
    /\ [][rzPc = "done" => UNCHANGED <<rzPc, rzLocal, rzRemote>>]_vars
    /\ (rzClosed /\ rzPc # "off") ~> (rzPc = "done" \/ spPc = "panicked")

TasksJoinedByCleanup ==
    spPc = "cleaned" => /\ outPc \in {"off", "done"}
                        /\ inPc \in {"off", "done"}
                        /\ rzPc \in {"off", "done"}

\* ========================================================================
\* Properties of the DualCloserWrapper under fairness (FairSpecDC), and of
\* NewDualCloser (SpecDC)
\* ========================================================================

\* caller t is blocked in o.m.Lock() of its Once
DCWaits(t) == dcPc[t] = "lock" /\ onceMu[dcKind[t]] # 0

DCNewStep == ndCall' # ndCall

\* C30: NewDualCloser(nil) is nil; a closer that has Close() and CloseWrite()
\* is returned as it is, nothing is allocated and a DualCloserWrapper passed
\* in keeps its counter and its latches; any other closer yields a new
\* DualCloserWrapper around it with counter 0 and both latches unfired.
NewDualCloserPassthrough ==
    /\ [](ndCall.called =>
            /\ ndCall.closer = NilCloser =>
                  ndCall.ret = NilCloser /\ ndCall.allocated = {}
            /\ ndCall.closer.type \in {"DualCloser", "DualCloserWrapper"} =>
                  ndCall.ret = ndCall.closer /\ ndCall.allocated = {}
            /\ ndCall.closer.type = "Closer" =>
                  /\ ndCall.ret.type = "DualCloserWrapper"
                  /\ ndCall.ret \notin ClosersIn
                  /\ ndCall.allocated =
                        {[Closer |-> ndCall.closer, count |-> 0,
                          close |-> FALSE, closeWrite |-> FALSE]})
    /\ [][DCNewStep => UNCHANGED <<count, onceDone, onceMu>>]_vars

\* NewDualCloser was handed the wrapper after both of its latches had fired
NewDualCloserPassthroughWitness ==
    /\ ndCall.called
    /\ ndCall.closer.type = "DualCloserWrapper"
    /\ count = 2
    /\ onceDone = [k \in Kinds |-> TRUE]

\* ========================================================================
\* Further properties of the StreamingProcess (checked under SpecSP)
\* ========================================================================

\* the step of a Cleanup() call
SPCleanupStep == cleanups' = cleanups + 1

\* C31: Cleanup() is safe whether or not Start and Wait ever ran: called
\* while the Streamer holds no connection (no Start, or a Start that failed
\* before or at Attach) it does not crash, it returns, and a local pty has
\* been closed.
CleanupSafeWithoutStart ==
    [][(SPCleanupStep /\ ~strm.conn) =>
          /\ spPc' = "cleaned"
          /\ spRet'.op = "Cleanup"
          /\ (ptyTerm = "pty" => ptyCloses' = ptyCloses + 1)]_vars

\* C33: Wait() ends in a call of Streamer.Result exactly when waitStreams()
\* returned no error, and then returns what Result returned and sets
\* sp.exited exactly when that is an error; otherwise Result is not called,
\* Wait() returns (0, the error of waitStreams()) and sp.exited stays unset;
\* Cleanup() returns sp.exited.
StreamWaitResult ==
    /\ [][SPWaitEndStep =>
            IF streamsErr = NoErr
            THEN /\ strm'.results = strm.results + 1
                 /\ outDelivered /\ outErr = NoErr
                 /\ exited' = (spRet'.err # NoErr)
            ELSE /\ strm'.results = strm.results
                 /\ spRet' = SpReturned("Wait", 0, streamsErr)
                 /\ streamsErr \in {outErr, ctxErr}
                 /\ exited' = FALSE]_vars
    /\ [](strm.results <= 1)
    /\ [](spPc \in {"waited"} => (strm.results = 1 <=> streamsErr = NoErr))
    /\ [][(SPCleanupStep /\ spPc' = "cleaned") =>
            spRet' = SpReturned("Cleanup", 0, IF exited THEN "exited" ELSE NoErr)]_vars

\* Wait() has returned the error of Streamer.Result, and Cleanup() has
\* reported the marker
StreamWaitResultWitness ==
    /\ spPc = "cleaned"
    /\ strm.results = 1
    /\ exited
    /\ spRet = SpReturned("Cleanup", 0, "exited")

\* the steps of Start in their order
StartSteps == <<"Streamer.Init", "go resize", "setRawTerminals",
                "Streamer.Attach", "go streams">>

\* p is s with some of its elements left out, and nothing else
RECURSIVE IsSubSeq(_, _)
IsSubSeq(p, s) ==
    IF p = <<>> THEN TRUE
    ELSE IF s = <<>> THEN FALSE
    ELSE IF Head(p) = Head(s) THEN IsSubSeq(Tail(p), Tail(s))
    ELSE IsSubSeq(p, Tail(s))

\* the stream tasks have been spawned
StreamsSpawned == outPc # "off" \/ inPc # "off"

\* C34: Start takes its steps in the order Streamer.Init, spawn of the
\* resize task (pty only), setRawTerminals, Streamer.Attach, spawn of the two
\* stream tasks; after a failed Streamer.Init it takes no further step, after
\* a failure of setRawTerminals or Attach it spawns no stream task and
\* returns that error, and the stream tasks run only after Attach succeeded.
StartOrder ==
    /\ IsSubSeq(startLog, StartSteps)
    /\ "go resize" \in Range(startLog) => spPty
    /\ (spPty /\ "setRawTerminals" \in Range(startLog))
          => "go resize" \in Range(startLog)
    /\ ("go resize" \in Range(startLog)) = (rzPc # "off")
    /\ (spPc = "started" /\ spRet.op = "Start" /\ spRet.err = "errStreamerInit")
          => startLog = <<"Streamer.Init">> /\ rzPc = "off" /\ ~everRaw
    /\ (spRet.op = "Start" /\ spRet.err # NoErr) => ~StreamsSpawned
    /\ (spRet.op = "Start" /\ spRet.err \in {"errSetRaw", "errAttach"})
          => startLog[Len(startLog)] =
                (IF spRet.err = "errAttach" THEN "Streamer.Attach"
                                            ELSE "setRawTerminals")
    /\ StreamsSpawned =>
          /\ strm.conn
          /\ startLog = IF spPty THEN StartSteps
                        ELSE <<"Streamer.Init", "setRawTerminals",
                               "Streamer.Attach", "go streams">>

\* a pty Start has gone through all five steps
StartOrderWitness ==
    /\ startLog = StartSteps
    /\ spRet = SpReturned("Start", 0, NoErr)
    /\ outPc = "copy"

\* C35: Streamer.Attach gets the pty flag that Start was handed and gave
\* Streamer.Init.
AttachFlagIsStartFlag ==
    strm.attachPty # "none" => strm.attachPty = strm.initPty

\* the step of a Close() of the local pty handle
PtyCloseStep == ptyCloses' = ptyCloses + 1

\* the step of a Streamer.Detach call
DetachStep == strm'.detaches = strm.detaches + 1

\* C36: with a pty the first Cleanup() closes the local pty handle and calls
\* Streamer.Detach, once each; a later Cleanup() does neither; without a pty
\* Cleanup() never calls Streamer.Detach.
CleanupDetachesOnce ==
    /\ [](ptyCloses <= 1 /\ strm.detaches <= 1)
    /\ [](~spPty => strm.detaches = 0 /\ ptyCloses = 0)
    /\ [][SPCleanupStep =>
            IF spPty /\ spPc # "unusable" /\ cleanups = 0
            THEN PtyCloseStep /\ DetachStep
            ELSE ~PtyCloseStep /\ ~DetachStep]_vars

\* a second Cleanup() has returned after a first one that closed the pty
\* handle and detached
CleanupDetachesOnceWitness ==
    /\ cleanups = 2
    /\ spPc = "cleaned"
    /\ spPty
    /\ ptyCloses = 1
    /\ strm.detaches = 1

\* ========================================================================
\* Further properties of the DualCloserWrapper (checked under SpecDC)
\* ========================================================================

\* caller t returns from its Close() / CloseWrite() call
DCReturnStep(t) == dcPc[t] # "idle" /\ dcPc'[t] = "idle"

\* C32: the wrapped Closer.Close() is entered by the call whose add makes
\* the count 2, runs inside that call and has returned when that call
\* returns; that call returns what the wrapped Close returned, and every
\* other call, earlier or later, returns nil.
DualCloserSynchronous ==
    /\ [][\A t \in DCCallers :
            /\ (closerEntered' # closerEntered) =>
                   (dcPc[t] = "f" /\ dcPc'[t] = "closing") =
                      (count' = 2 /\ dcFirer' = t)
            /\ DCReturnStep(t) =>
                   /\ dcPc[t] # "closing"
                   /\ dcErr[t] = IF dcFirer = t THEN closerErr ELSE NoErr
                   /\ dcFirer = t => closerReturned = 1
                   /\ dcErr'[t] = dcErr[t]]_vars
    /\ [](\A t \in DCCallers :
             dcPc[t] = "closing" => dcFirer = t /\ closerEntered = closerReturned + 1)
    /\ [](closerReturned <= closerEntered)

\* the call that ran the wrapped Closer.Close() is about to return its
\* error, while another call of the same method has returned nil meanwhile
DualCloserSynchronousWitness ==
    \E t \in DCCallers :
       /\ dcFirer = t
       /\ dcPc[t] = "unlock"
       /\ dcErr[t] = "errClose"
       /\ closerReturned = 1
       /\ \E u \in DCCallers \ {t} : dcPc[u] = "lock" /\ dcKind[u] = dcKind[t]

\* ========================================================================
\* Further properties of the Command (checked under Spec)
\* ========================================================================

\* the step of wait() in a Wait() call of caller t
WaitBeginStep(t) == WaitBegin(t)

\* C37: a Wait() made in state Default or Init returns (0, errCommandNotRunning)
\* from wait() itself: it does not get to the receive from e.waitChan, spawns
\* no waiter, enters no method of the Process and leaves the state and the
\* wait fields as they are.
WaitBeforeStart ==
    [][\A t \in Callers :
         (WaitBeginStep(t) /\ state \in {commandStateDefault, commandStateInit}) =>
            /\ lastRet' = Returned("Wait", Result(0, errCommandNotRunning))
            /\ pc'[t] = "idle"
            /\ \A w \in Waiters : pc'[w] = pc[w]
            /\ procCalls' = procCalls
            /\ state' = state
            /\ UNCHANGED <<waitChan, waitExitCode, waitErr>>]_vars

\* a Wait() has been rejected in state Init and nothing was spawned or called
WaitBeforeStartWitness ==
    /\ state = commandStateInit
    /\ lastRet = Returned("Wait", Result(0, errCommandNotRunning))
    /\ \A w \in Waiters : pc[w] = "off"
    /\ procCalls["Wait"] = 0

\* a call of the given method of the Process is in progress
InProcess(meth) ==
    \E t \in Threads :
       pc[t] = "Process." \o meth \/ (meth = "Start" /\ pc[t] = "Process.StartPty")

\* what holds of Process.Cleanup and Process.Start in C38
BackendOrderCleanupStart ==
    /\ (procCalls["Cleanup"] >= 1) => procWaitRet.err # "none"
    /\ InProcess("Cleanup") =>
          ~InProcess("Init") /\ ~InProcess("Start") /\ ~InProcess("Stop")
    /\ (procCalls["Start"] >= 1) =>
          state >= commandStateStart /\ ~InProcess("Init")

\* C38 as stated: Process.Cleanup is entered only after Process.Wait has
\* returned and never runs along a Process.Init, Start or Stop; Process.Start
\* is entered only after a successful Process.Init, and Process.Wait only
\* after Process.Start was entered.
BackendOrder ==
    /\ BackendOrderCleanupStart
    /\ (procCalls["Wait"] >= 1) => procCalls["Start"] >= 1

\* C38: Process.Cleanup is entered only after Process.Wait has returned and
\* never runs along a Process.Init, Start or Stop; Process.Start is entered
\* only after a successful Process.Init (the state leaves Default at no
\* other point); Process.Wait is entered only after a Start() or StartPty()
\* of the Command has set the state and returned, with Process.Start entered
\* or with Process.Stdin, Stdout or Stderr having failed before.
BackendOrderAfterStartCall ==
    /\ [](BackendOrderCleanupStart)
    /\ []((procCalls["Wait"] >= 1) =>
             /\ startErr # "none"
             /\ state >= commandStateWait
             /\ procCalls["Start"] >= 1
                  \/ startErr \in {"errStdin", "errStdout", "errStderr"})
    /\ [][(state = commandStateDefault /\ state' # commandStateDefault) =>
             /\ InProcess("Init")
             /\ lastRet' = Returned("Init", Result(0, NoErr))
             /\ state' = commandStateInit]_vars

\* Process.Cleanup is running after a run that was started, stopped and
\* waited for
BackendOrderAfterStartCallWitness ==
    /\ InProcess("Cleanup")
    /\ procCalls["Start"] = 1
    /\ procCalls["Stop"] >= 1
    /\ procCalls["Wait"] = 1
    /\ procWaitRet.err # "none"

\* ========================================================================
\* Properties of the ExecProcess (checked under SpecEP)
\* ========================================================================

\* the step of a Stop() call
EPStopStep == \E outcome \in {NoErr, "errKill", "panic"} : EPStop(outcome)

\* C39: Stop() never panics; it returns nil exactly when the kill succeeded,
\* the error of the kill when it failed, and an error when there is no
\* process to kill.
ExecStopFaithful ==
    [][EPStopStep =>
          /\ ~epPanicked'
          /\ epRet'.op = "Stop"
          /\ (epRet'.err = NoErr) = (epKill' = NoErr)
          /\ epKill' = "errKill" => epRet'.err = "errKill"
          /\ (~epCmd \/ epProc = "nil") => epRet'.err # NoErr]_vars

\* ========================================================================
\* Properties of WindowResize (checked under FairSpecWR)
\* ========================================================================

\* C40: whatever the order of the forwarding goroutine, the goroutine of
\* the initial signal and cleanup(), nothing is sent on c once cleanup() has
\* closed it, so that no goroutine panics; and after cleanup() the loop of
\* monitorSize over onResize ends.
ResizeTeardownRaceFree ==
    /\ [](forwardPc # "panicked")
    /\ [][notifyClosed => notifyBuf' <= notifyBuf]_vars
    /\ (wrPc = "cleaned") ~> (monitorPc = "done")

====
